---- MODULE Spec2Model ----
(***************************************************************************)
(* Verification model of the class-file and dex decoders of                *)
(* Android_Java_Tools (libs/class_parser, libs/dex_parser).                *)
(*                                                                         *)
(* A byte buffer is a sequence of integers 0..255.  A parser takes the     *)
(* remaining input and returns a record [st, rest, val]: st = "Ok" with    *)
(* the remaining input and the value, st = "Eof" or "Tag" for the nom      *)
(* error kinds the code returns, st = "Panic" where the code panics        *)
(* (unwrap on Err/None, slice or index out of bounds, checked overflow).   *)
(***************************************************************************)
EXTENDS Integers, Sequences, FiniteSets, TLC

VARIABLES
  \* The build profile: TRUE when integer overflow is checked (a debug
  \* build panics), FALSE when it wraps (a release build).
  overflow_checks,
  \* class_parser/src/lib.rs:21: static mut CONSTANT_POOL_REF
  CONSTANT_POOL_REF,
  \* dex_parser/src/lib.rs:15-18: the four static mut tables
  STRING_DATA_REF,
  TYPE_ID_REF,
  METHOD_ID_REF,
  FIELD_ID_REF,
  \* ClassFile::parse_constant_pool (raw_class.rs:30-50)
  cp_pc,          \* position: "idle" | "entry" | "loop" | "Ok" | "Eof" | "Panic"
  cp_input,       \* the `bytes` argument
  declared_count, \* the `pool_count` argument (constant_pool_count of the header)
  pool_count,     \* the local u16 counter `pool_count`
  m_bytes,        \* the local cursor `m_bytes`
  constant_pool,  \* the local Vec `constant_pool`
  decoded,        \* history: the entries ConstantPoolInfo::parse returned, in order
  \* AttributeInfo::parse (attribute/mod.rs:52-84)
  attr_pc,        \* "idle" | "call" | "done"
  attr_input,     \* the `bytes` argument
  attr_result,    \* the IResult returned
  \* One call of ClassFile::parse_from_u8 or DexFile::parse_from_u8
  dec_pc,         \* "idle" | "call" | "done"
  dec_format,     \* "class" | "dex": the decoder called
  dec_input,      \* the buffer
  dec_result,     \* the Result returned, or st = "Panic"
  \* A process that decodes and renders files one after the other
  log,            \* history: [format, input, res] of each decode, in order
  shown,          \* the last render: <<>> or [of |-> index in log, out |-> names]
  \* Two threads of one process, each decoding one file
  th,             \* thread -> [pc, format, input, held, mid, raced, res]
  \* One call of one of the parsers or readers on its own
  call_pc,        \* "idle" | "call" | "done"
  call_fn,        \* the function called
  call_arg,       \* its arguments
  call_result,    \* what it returned
  \* One App of class_parser_tui (app.rs:23-30)
  tui_pc,         \* "idle" | "run" | "Panic"
  app_index,      \* App::index, the tab shown
  list_len,       \* list.items.items.len(), the methods of the class file
  selected,       \* list.items.state.selected(): <<i>> for Some(i)
  toggle,         \* list.items.toggle
  scroll_y,       \* constant_pool_state.scroll.y
  indexed         \* history: <<i>>, the index the last draw read the items at

refVars ==
  <<CONSTANT_POOL_REF, STRING_DATA_REF, TYPE_ID_REF, METHOD_ID_REF, FIELD_ID_REF>>

vars ==
  <<overflow_checks, refVars,
    cp_pc, cp_input, declared_count, pool_count, m_bytes, constant_pool, decoded,
    attr_pc, attr_input, attr_result,
    dec_pc, dec_format, dec_input, dec_result,
    log, shown, th, call_pc, call_fn, call_arg, call_result,
    tui_pc, app_index, list_len, selected, toggle, scroll_y, indexed>>

tuiVars == <<tui_pc, app_index, list_len, selected, toggle, scroll_y, indexed>>

\* What the steps of each component leave alone.
poolFrame ==
  <<overflow_checks, refVars, attr_pc, attr_input, attr_result,
    dec_pc, dec_format, dec_input, dec_result, log, shown, th,
    call_pc, call_fn, call_arg, call_result, tuiVars>>

attrFrame ==
  <<overflow_checks, refVars,
    cp_pc, cp_input, declared_count, pool_count, m_bytes, constant_pool, decoded,
    dec_pc, dec_format, dec_input, dec_result, log, shown, th,
    call_pc, call_fn, call_arg, call_result, tuiVars>>

decFrame ==
  <<overflow_checks,
    cp_pc, cp_input, declared_count, pool_count, m_bytes, constant_pool, decoded,
    attr_pc, attr_input, attr_result, log, shown, th,
    call_pc, call_fn, call_arg, call_result, tuiVars>>

sessionFrame ==
  <<overflow_checks,
    cp_pc, cp_input, declared_count, pool_count, m_bytes, constant_pool, decoded,
    attr_pc, attr_input, attr_result,
    dec_pc, dec_format, dec_input, dec_result, th,
    call_pc, call_fn, call_arg, call_result, tuiVars>>

threadFrame ==
  <<overflow_checks,
    cp_pc, cp_input, declared_count, pool_count, m_bytes, constant_pool, decoded,
    attr_pc, attr_input, attr_result,
    dec_pc, dec_format, dec_input, dec_result, log, shown,
    call_pc, call_fn, call_arg, call_result, tuiVars>>

callFrame ==
  <<overflow_checks, refVars,
    cp_pc, cp_input, declared_count, pool_count, m_bytes, constant_pool, decoded,
    attr_pc, attr_input, attr_result,
    dec_pc, dec_format, dec_input, dec_result, log, shown, th, tuiVars>>

tuiFrame ==
  <<overflow_checks, refVars,
    cp_pc, cp_input, declared_count, pool_count, m_bytes, constant_pool, decoded,
    attr_pc, attr_input, attr_result,
    dec_pc, dec_format, dec_input, dec_result, log, shown, th,
    call_pc, call_fn, call_arg, call_result>>

\* The statics before any decode: `vec![]`.
RefsEmpty ==
  /\ CONSTANT_POOL_REF = <<>>
  /\ STRING_DATA_REF = <<>>
  /\ TYPE_ID_REF = <<>>
  /\ METHOD_ID_REF = <<>>
  /\ FIELD_ID_REF = <<>>

\* No call of a component other than `running` has been made.
Idle(running) ==
  /\ IF running = "pool" THEN TRUE
     ELSE /\ cp_pc = "idle"
          /\ cp_input = <<>>
          /\ declared_count = 0
          /\ pool_count = 0
          /\ m_bytes = <<>>
          /\ constant_pool = <<>>
          /\ decoded = <<>>
  /\ IF running = "attr" THEN TRUE
     ELSE /\ attr_pc = "idle"
          /\ attr_input = <<>>
          /\ attr_result = <<>>
  /\ IF running = "decode" THEN TRUE
     ELSE /\ dec_pc = "idle"
          /\ dec_format = "class"
          /\ dec_input = <<>>
          /\ dec_result = <<>>
  /\ IF running = "session" THEN TRUE
     ELSE /\ log = <<>>
          /\ shown = <<>>
  /\ IF running = "threads" THEN TRUE
     ELSE th = <<>>
  /\ IF running = "call" THEN TRUE
     ELSE /\ call_pc = "idle"
          /\ call_fn = ""
          /\ call_arg = <<>>
          /\ call_result = <<>>
  /\ IF running = "tui" THEN TRUE
     ELSE /\ tui_pc = "idle"
          /\ app_index = 0
          /\ list_len = 0
          /\ selected = <<>>
          /\ toggle = FALSE
          /\ scroll_y = 0
          /\ indexed = <<>>

----------------------------------------------------------------------------
(* Bounds of the model.                                                    *)

\* Largest declared constant_pool_count drawn for the pool decoder.
MaxPoolCount == 5

\* Largest number of encoded entries in a pool input buffer.
MaxEntries == 3

----------------------------------------------------------------------------
(* Results of a parser.                                                    *)

Ok(rest, val) == [st |-> "Ok", rest |-> rest, val |-> val]

Err(kind, rest) == [st |-> kind, rest |-> rest, val |-> <<>>]

Drop(bytes, n) == SubSeq(bytes, n + 1, Len(bytes))

Take(bytes, n) == SubSeq(bytes, 1, n)

U16 == 65536

(* nom::number::complete::be_u8 *)
be_u8(bytes) ==
  IF Len(bytes) < 1 THEN Err("Eof", bytes)
  ELSE Ok(Drop(bytes, 1), bytes[1])

(* nom::number::complete::be_u16 *)
be_u16(bytes) ==
  IF Len(bytes) < 2 THEN Err("Eof", bytes)
  ELSE Ok(Drop(bytes, 2), bytes[1] * 256 + bytes[2])

(* A u32 is kept as its two 16-bit halves [hi, lo]: the checker's integers *)
(* are 32-bit signed, and 0xCAFEBABE does not fit.                         *)
U32(hi, lo) == [hi |-> hi, lo |-> lo]

(* `x as usize` of a u32 used as a count or an offset.  A value of 2^30 or *)
(* more is reported as 2^30, which is beyond the end of every buffer of    *)
(* the model, as the value itself is.                                      *)
AsUsize(x) == IF x.hi >= 16384 THEN 1073741824 ELSE x.hi * U16 + x.lo

(* nom::number::complete::be_u32 *)
be_u32(bytes) ==
  IF Len(bytes) < 4 THEN Err("Eof", bytes)
  ELSE Ok(Drop(bytes, 4),
          U32(bytes[1] * 256 + bytes[2], bytes[3] * 256 + bytes[4]))

(* nom::bytes::complete::take / count(be_u8, n): n raw bytes *)
take(bytes, n) ==
  IF Len(bytes) < n THEN Err("Eof", bytes)
  ELSE Ok(Drop(bytes, n), Take(bytes, n))

----------------------------------------------------------------------------
(* String::from_utf8: the validity check of the standard library.  The     *)
(* String keeps the bytes as they are, so a valid text is its bytes.       *)

IsCont(b) == b >= 128 /\ b <= 191

RECURSIVE Utf8Valid(_)
Utf8Valid(bs) ==
  IF bs = <<>> THEN TRUE
  ELSE LET b == bs[1]
           n == Len(bs)
       IN  IF b < 128 THEN Utf8Valid(Drop(bs, 1))
           ELSE IF b >= 194 /\ b <= 223
             THEN n >= 2 /\ IsCont(bs[2]) /\ Utf8Valid(Drop(bs, 2))
           ELSE IF b >= 224 /\ b <= 239
             THEN /\ n >= 3
                  /\ IsCont(bs[2]) /\ IsCont(bs[3])
                  /\ (b = 224 => bs[2] >= 160)
                  /\ (b = 237 => bs[2] <= 159)
                  /\ Utf8Valid(Drop(bs, 3))
           ELSE IF b >= 240 /\ b <= 244
             THEN /\ n >= 4
                  /\ IsCont(bs[2]) /\ IsCont(bs[3]) /\ IsCont(bs[4])
                  /\ (b = 240 => bs[2] >= 144)
                  /\ (b = 244 => bs[2] <= 143)
                  /\ Utf8Valid(Drop(bs, 4))
           ELSE FALSE

----------------------------------------------------------------------------
(* constant_pool.rs                                                        *)

\* The tags ConstantType::parse has an arm for.
KnownTags == {1, 3, 4, 5, 6, 7, 8, 9, 10, 11, 12, 15, 16, 18}

Utf8(text) == [kind |-> "Utf8", a |-> text, b |-> 0]

Entry(kind, a, b) == [kind |-> kind, a |-> a, b |-> b]

(* Two big-endian u16 operands: tags 9, 10, 11, 12, 18. *)
TwoU16(bytes, kind) ==
  LET x == be_u16(bytes) IN
  IF x.st # "Ok" THEN x
  ELSE LET y == be_u16(x.rest) IN
       IF y.st # "Ok" THEN y
       ELSE Ok(y.rest, Entry(kind, x.val, y.val))

(* One big-endian u16 operand: tags 7, 8, 16. *)
OneU16(bytes, kind) ==
  LET x == be_u16(bytes) IN
  IF x.st # "Ok" THEN x ELSE Ok(x.rest, Entry(kind, x.val, 0))

(* Two big-endian u32 halves, high first: tags 5, 6.  The u64              *)
(* `(high as u64) << 32 | low as u64` is kept as the pair (high, low).     *)
TwoU32(bytes, kind) ==
  LET hi == be_u32(bytes) IN
  IF hi.st # "Ok" THEN hi
  ELSE LET lo == be_u32(hi.rest) IN
       IF lo.st # "Ok" THEN lo
       ELSE Ok(lo.rest, Entry(kind, hi.val, lo.val))

(* A fallback arm that returns the error the code has commented out. *)
UnknownTagRejected(bytes) == Err("Tag", bytes)

(* The fallback arm of ConstantType::parse: the tag byte is consumed and   *)
(* an empty Utf8 is returned.                                              *)
UnknownTagArm(bytes) == Ok(bytes, Utf8(<<>>))

(* ConstantType::parse.  A Float or Double is kept as its bit pattern.     *)
ConstantType_parse(bytes) ==
  LET t == be_u8(bytes) IN
  IF t.st # "Ok" THEN t
  ELSE
    CASE t.val = 1 ->
           LET l == be_u16(t.rest) IN
           IF l.st # "Ok" THEN l
           ELSE LET v == take(l.rest, l.val) IN
                IF v.st # "Ok" THEN v
                ELSE IF ~Utf8Valid(v.val) THEN Err("Panic", v.rest)
                ELSE Ok(v.rest, Utf8(v.val))
      [] t.val = 3 ->
           LET v == be_u32(t.rest) IN
           IF v.st # "Ok" THEN v ELSE Ok(v.rest, Entry("Integer", v.val, 0))
      [] t.val = 4 ->
           LET v == be_u32(t.rest) IN
           IF v.st # "Ok" THEN v ELSE Ok(v.rest, Entry("Float", v.val, 0))
      [] t.val = 5 -> TwoU32(t.rest, "Long")
      [] t.val = 6 -> TwoU32(t.rest, "Double")
      [] t.val = 7 -> OneU16(t.rest, "Class")
      [] t.val = 8 -> OneU16(t.rest, "String")
      [] t.val = 9 -> TwoU16(t.rest, "Fieldref")
      [] t.val = 10 -> TwoU16(t.rest, "Methodref")
      [] t.val = 11 -> TwoU16(t.rest, "InterfaceMethodref")
      [] t.val = 12 -> TwoU16(t.rest, "NameAndType")
      [] t.val = 15 ->
           LET k == be_u8(t.rest) IN
           IF k.st # "Ok" THEN k
           ELSE LET r == be_u16(k.rest) IN
                IF r.st # "Ok" THEN r
                ELSE Ok(r.rest, Entry("MethodHandle", k.val, r.val))
      [] t.val = 16 -> OneU16(t.rest, "MethodType")
      [] t.val = 18 -> TwoU16(t.rest, "InvokeDynamic")
      [] OTHER -> UnknownTagArm(t.rest)

(* ConstantType::value *)
value(info) ==
  CASE info.kind = "Utf8" -> 1
    [] info.kind = "Integer" -> 3
    [] info.kind = "Float" -> 4
    [] info.kind = "Long" -> 5
    [] info.kind = "Double" -> 6
    [] info.kind = "Class" -> 7
    [] info.kind = "String" -> 8
    [] info.kind = "Fieldref" -> 9
    [] info.kind = "Methodref" -> 10
    [] info.kind = "InterfaceMethodref" -> 11
    [] info.kind = "NameAndType" -> 12
    [] info.kind = "MethodHandle" -> 15
    [] info.kind = "MethodType" -> 16
    [] info.kind = "InvokeDynamic" -> 18
    [] OTHER -> 0

(* ConstantPoolInfo::parse: the entry with its tag recomputed from it. *)
ConstantPoolInfo_parse(bytes) ==
  LET cp == ConstantType_parse(bytes) IN
  IF cp.st # "Ok" THEN cp
  ELSE Ok(cp.rest, [tag |-> value(cp.val), info |-> cp.val])

(* ConstantPoolInfo::is_double_size *)
is_double_size(e) == e.info.kind \in {"Double", "Long"}

(* ConstantPoolInfo::new_empty *)
new_empty == [tag |-> 0, info |-> Entry("Empty", 0, 0)]

(* ConstantPoolInfo::as_utf8: Some(text) or None *)
as_utf8(e) ==
  IF e.info.kind = "Utf8" THEN [some |-> TRUE, text |-> e.info.a]
  ELSE [some |-> FALSE, text |-> <<>>]

----------------------------------------------------------------------------
(* raw_class.rs: ClassFile::parse_constant_pool                            *)

(* A pool loop that pushes no placeholder after a double-size entry. *)
PoolSlotsNoPlaceholder(e) == <<e>>

(* The body of `if constant_pool_info.is_double_size() {..} else {..}`:    *)
(* the slots pushed for one parsed entry.                                  *)
PoolSlots(e) == IF is_double_size(e) THEN <<e, new_empty>> ELSE <<e>>

(* `pool_count -= n` on a u16: a panic when overflow is checked, a wrap    *)
(* otherwise.                                                              *)
SubU16(x, n, oc) ==
  IF x >= n THEN [st |-> "Ok", val |-> x - n]
  ELSE IF oc THEN [st |-> "Panic", val |-> x]
  ELSE [st |-> "Ok", val |-> (x - n + U16) % U16]

(* One iteration of `while pool_count > 0` (raw_class.rs:38-47) on the    *)
(* loop state s, given the result r of the parse of the entry.            *)
PoolPush(s, r, oc) ==
  IF r.st # "Ok" THEN [s EXCEPT !.pc = r.st]
  ELSE LET slots == PoolSlots(r.val)
           c == SubU16(s.pool_count, Len(slots), oc)
       IN  IF c.st # "Ok" THEN [s EXCEPT !.pc = "Panic", !.m_bytes = r.rest]
           ELSE [pc |-> "loop",
                 pool_count |-> c.val,
                 m_bytes |-> r.rest,
                 constant_pool |-> s.constant_pool \o slots]

(* One iteration of `while pool_count > 0` on the loop state              *)
(* s = [pc, pool_count, m_bytes, constant_pool].                           *)
PoolIter(s, oc) == PoolPush(s, ConstantPoolInfo_parse(s.m_bytes), oc)

\* The loop entered with the declared count, not one less.
PoolEntry_declared_count(bytes, cp_count, oc) ==
  [pc |-> "loop", pool_count |-> cp_count, m_bytes |-> bytes,
   constant_pool |-> <<>>]

(* `let mut pool_count = pool_count - 1;` and the empty Vec. *)
PoolEntry(bytes, cp_count, oc) ==
  LET c == SubU16(cp_count, 1, oc) IN
  [pc |-> IF c.st = "Ok" THEN "loop" ELSE "Panic",
   pool_count |-> c.val,
   m_bytes |-> bytes,
   constant_pool |-> <<>>]

(* The whole of parse_constant_pool as a function of its arguments. *)
RECURSIVE PoolRun(_, _)
PoolRun(s, oc) ==
  IF s.pc # "loop" THEN s
  ELSE IF s.pool_count = 0 THEN [s EXCEPT !.pc = "Ok"]
  ELSE PoolRun(PoolIter(s, oc), oc)

\* `Ok((m_bytes, constant_pool))` (raw_class.rs:49), or the error the loop
\* ended with.
PoolResult(s) == [st |-> s.pc, rest |-> s.m_bytes, val |-> s.constant_pool]

parse_constant_pool(bytes, cp_count, oc) ==
  PoolResult(PoolRun(PoolEntry(bytes, cp_count, oc), oc))

(* `v[i as usize]` on a Vec: <<element>>, or <<>> for the panic of an      *)
(* index out of bounds.                                                    *)
VecIndex(v, i) == IF i >= Len(v) THEN <<>> ELSE <<v[i + 1]>>

----------------------------------------------------------------------------
(* opcodes.rs                                                              *)

\* A table that gives every load-constant opcode 2 operand bytes.
CODE_OP_CNT_MAP_get_wide(code) ==
  IF code \in {16, 17, 18, 19, 20, 180, 181, 183, 189} THEN <<2>> ELSE <<0>>

(* CODE_OP_CNT_MAP.get(&code): <<n>> for Some(n), the number of operand   *)
(* bytes the map holds for the opcode, <<>> for None.                      *)
CODE_OP_CNT_MAP_get(code) ==
  IF code \in {1, 2, 3, 4, 5, 6, 7, 8, 9, 10, 11, 12, 13, 14, 15,
               38, 39, 40, 41, 42, 43, 44, 45, 50, 83, 175, 177} THEN <<0>>
  ELSE IF code \in {16, 18} THEN <<1>>
  ELSE IF code \in {17, 19, 20, 180, 181, 183, 189} THEN <<2>>
  ELSE <<>>

(* CodeInfo::parse.  An Option<u8> is <<b>> for Some(b), <<>> for None. *)
CodeInfo_parse(bytes) ==
  LET c == be_u8(bytes) IN
  IF c.st # "Ok" THEN c
  ELSE LET n == CODE_OP_CNT_MAP_get(c.val) IN
       IF n = <<>> \/ n = <<0>>
         THEN Ok(c.rest, [code |-> c.val, index_byte1 |-> <<>>, index_byte2 |-> <<>>])
       ELSE LET b1 == be_u8(c.rest) IN
            IF b1.st # "Ok" THEN b1
            ELSE IF n = <<1>>
              THEN Ok(b1.rest, [code |-> c.val, index_byte1 |-> <<b1.val>>,
                                index_byte2 |-> <<>>])
            ELSE LET b2 == be_u8(b1.rest) IN
                 IF b2.st # "Ok" THEN b2
                 ELSE Ok(b2.rest, [code |-> c.val, index_byte1 |-> <<b1.val>>,
                                   index_byte2 |-> <<b2.val>>])

----------------------------------------------------------------------------
(* attribute/mod.rs, attribute/code.rs, attribute/stack_map_table.rs,      *)
(* attribute/linenumber_table.rs.  A text is its sequence of bytes.        *)

\* "Code"
CODE_ATTRIBUTE_NAME ==
  <<67, 111, 100, 101>>

\* "ConstantValue"
CONSTANT_VALUE_ATTRIBUTE_NAME ==
  <<67, 111, 110, 115, 116, 97, 110, 116, 86, 97, 108, 117, 101>>

\* "StackMapTable"
STACK_MAP_TABLE_ATTRIBUTE_NAME ==
  <<83, 116, 97, 99, 107, 77, 97, 112, 84, 97, 98, 108, 101>>

\* "LineNumberTable"
LINE_NUMBER_TABLE_ATTRIBUTE_NAME ==
  <<76, 105, 110, 101, 78, 117, 109, 98, 101, 114, 84, 97, 98, 108, 101>>

\* "SourceFile"
SOURCE_FILE_ATTRIBUTE_NAME ==
  <<83, 111, 117, 114, 99, 101, 70, 105, 108, 101>>

\* "Deprecated"
DEPRECATED_ATTRIBUTE_NAME ==
  <<68, 101, 112, 114, 101, 99, 97, 116, 101, 100>>

(* Every parser that reads the resolution table takes `pool`, the value   *)
(* of the process-wide CONSTANT_POOL_REF at the time of the call.         *)
(* Parse(T, bytes, cx) is `T::parse(bytes)`, the parser named T; cx holds *)
(* what the parser reads besides its bytes.  It is defined after the      *)
(* parsers it names.                                                       *)
RECURSIVE Parse(_, _, _)
RECURSIVE count(_, _, _, _)
RECURSIVE tuple(_, _, _)

(* The push of nom::multi::count: element v before the elements of t. *)
Prepend(v, t) ==
  IF t.st # "Ok" THEN t ELSE Ok(t.rest, <<v>> \o t.val)

(* nom::multi::count(T::parse, n) *)
count(T, bytes, cx, n) ==
  IF n = 0 THEN Ok(bytes, <<>>)
  ELSE LET r == Parse(T, bytes, cx) IN
       IF r.st # "Ok" THEN r
       ELSE Prepend(r.val, count(T, r.rest, cx, n - 1))

(* nom::sequence::tuple((T1::parse, T2::parse, ..)) *)
tuple(Ts, bytes, cx) ==
  IF Ts = <<>> THEN Ok(bytes, <<>>)
  ELSE LET r == Parse(Head(Ts), bytes, cx) IN
       IF r.st # "Ok" THEN r
       ELSE Prepend(r.val, tuple(Tail(Ts), r.rest, cx))

(* ExceptionTable::parse (code.rs:78-90) *)
ExceptionTable_parse(bytes) ==
  LET r == tuple(<<"be_u16", "be_u16", "be_u16", "be_u16">>, bytes, <<>>) IN
  IF r.st # "Ok" THEN r
  ELSE Ok(r.rest, [start_pc |-> r.val[1], end_pc |-> r.val[2],
                   handler_pc |-> r.val[3], catch_type |-> r.val[4]])

(* LineNumberTable::parse (linenumber_table.rs:34-49): one pair *)
LineNumberTable_parse(bytes) ==
  LET r == tuple(<<"be_u16", "be_u16">>, bytes, <<>>) IN
  IF r.st # "Ok" THEN r
  ELSE Ok(r.rest, [start_pc |-> r.val[1], line_number |-> r.val[2]])

(* The name of a verification type tag without operand. *)
VerificationTypeName(tag) ==
  CASE tag = 0 -> "Top" [] tag = 1 -> "Integer" [] tag = 2 -> "Float"
    [] tag = 3 -> "Long" [] tag = 4 -> "Double" [] tag = 5 -> "Null"
    [] tag = 6 -> "UninitializedThis" [] OTHER -> "Invalid"

\* Every verification type read as its tag byte alone.
VerificationTypeInfo_parse_tag_only(bytes) ==
  LET t == be_u8(bytes) IN
  IF t.st # "Ok" THEN t
  ELSE Ok(t.rest, [vt |-> VerificationTypeName(t.val), arg |-> 0])

(* VerificationTypeInfo::parse *)
VerificationTypeInfo_parse(bytes) ==
  LET t == be_u8(bytes) IN
  IF t.st # "Ok" THEN t
  ELSE IF t.val \in {7, 8}
    THEN LET x == be_u16(t.rest) IN
         IF x.st # "Ok" THEN x
         ELSE Ok(x.rest, [vt |-> IF t.val = 7 THEN "Object" ELSE "Uninitialized",
                          arg |-> x.val])
  ELSE Ok(t.rest, [vt |-> VerificationTypeName(t.val), arg |-> 0])

Frame(kind, frame_type, offset_delta, locals, stack) ==
  [frame |-> kind, frame_type |-> frame_type, offset_delta |-> offset_delta,
   locals |-> locals, stack |-> stack]

(* The arm `255 =>` of StackMapFrame::parse, after offset_delta. *)
FullFrame_parse(t, delta, bytes) ==
  LET nl == be_u16(bytes) IN
  IF nl.st # "Ok" THEN nl
  ELSE LET ls == count("VerificationTypeInfo", nl.rest, <<>>, nl.val) IN
       IF ls.st # "Ok" THEN ls
       ELSE LET ns == be_u16(ls.rest) IN
            IF ns.st # "Ok" THEN ns
            ELSE LET ss == count("VerificationTypeInfo", ns.rest, <<>>, ns.val) IN
                 IF ss.st # "Ok" THEN ss
                 ELSE Ok(ss.rest, Frame("FullFrame", t, delta, ls.val, ss.val))

(* A frame with one verification type or a list of them: the frame made   *)
(* of the result v of reading them.                                        *)
FrameOf(kind, t, delta, v) ==
  IF v.st # "Ok" THEN v
  ELSE IF kind = "AppendFrame" THEN Ok(v.rest, Frame(kind, t, delta, v.val, <<>>))
  ELSE Ok(v.rest, Frame(kind, t, delta, <<>>, <<v.val>>))

(* StackMapFrame::parse: the frame selected by the frame-type byte. *)
StackMapFrame_parse(bytes) ==
  LET f == be_u8(bytes) IN
  IF f.st # "Ok" THEN f
  ELSE IF f.val <= 63 THEN Ok(f.rest, Frame("SameFrame", f.val, 0, <<>>, <<>>))
  ELSE IF f.val <= 127
    THEN FrameOf("SameLocals1StackItemFrame", f.val, 0,
                 Parse("VerificationTypeInfo", f.rest, <<>>))
  ELSE IF f.val <= 246 THEN Ok(f.rest, Frame("Invalid", 0, 0, <<>>, <<>>))
  ELSE LET d == be_u16(f.rest) IN
       IF d.st # "Ok" THEN d
       ELSE IF f.val = 247
         THEN FrameOf("SameLocals1StackItemFrameExtended", f.val, d.val,
                      Parse("VerificationTypeInfo", d.rest, <<>>))
       ELSE IF f.val <= 250
         THEN Ok(d.rest, Frame("ChopFrame", f.val, d.val, <<>>, <<>>))
       ELSE IF f.val = 251
         THEN Ok(d.rest, Frame("SameFrameExtended", f.val, d.val, <<>>, <<>>))
       ELSE IF f.val <= 254
         THEN FrameOf("AppendFrame", f.val, d.val,
                      count("VerificationTypeInfo", d.rest, <<>>, f.val - 251))
       ELSE FullFrame_parse(f.val, d.val, d.rest)

(* StackMapTable::parse *)
StackMapTable_parse(bytes) ==
  LET n == be_u16(bytes) IN
  IF n.st # "Ok" THEN n
  ELSE LET es == count("StackMapFrame", n.rest, <<>>, n.val) IN
       IF es.st # "Ok" THEN es
       ELSE Ok(es.rest, [number_of_entries |-> n.val, entries |-> es.val])

(* ConstantValue::parse *)
ConstantValue_parse(bytes) ==
  LET x == be_u16(bytes) IN
  IF x.st # "Ok" THEN x ELSE Ok(x.rest, [constantvalue_index |-> x.val])

(* SourceFile::parse *)
SourceFile_parse(bytes) ==
  LET x == be_u16(bytes) IN
  IF x.st # "Ok" THEN x ELSE Ok(x.rest, [sourcefile_index |-> x.val])

(* CODE_NAME_MAP.get(&code) (opcodes.rs:50-89): <<name>> for Some(name),   *)
(* <<>> for None.                                                          *)
CODE_NAME_MAP_get(code) ==
  CASE code = 50 -> <<"aaload">> [] code = 83 -> <<"aastore">>
    [] code = 1 -> <<"aconst_null">> [] code = 2 -> <<"iconst_m1">>
    [] code = 3 -> <<"iconst_0">> [] code = 4 -> <<"iconst_1">>
    [] code = 5 -> <<"iconst_2">> [] code = 6 -> <<"iconst_3">>
    [] code = 7 -> <<"iconst_4">> [] code = 8 -> <<"iconst_5">>
    [] code = 9 -> <<"lconst_0">> [] code = 10 -> <<"lconst_1">>
    [] code = 11 -> <<"fconst_0">> [] code = 12 -> <<"fconst_1">>
    [] code = 13 -> <<"fconst_2">> [] code = 14 -> <<"dconst_0">>
    [] code = 15 -> <<"dconst_1">> [] code = 16 -> <<"bipush">>
    [] code = 17 -> <<"sipush">> [] code = 18 -> <<"ldc">>
    [] code = 19 -> <<"ldc_w">> [] code = 20 -> <<"ldc2_w">>
    [] code = 42 -> <<"aload_0">> [] code = 43 -> <<"aload_1">>
    [] code = 44 -> <<"aload_2">> [] code = 45 -> <<"aload_3">>
    [] code = 38 -> <<"dload_0">> [] code = 39 -> <<"dload_1">>
    [] code = 40 -> <<"dload_2">> [] code = 41 -> <<"dload_3">>
    [] code = 177 -> <<"return">> [] code = 175 -> <<"dreturn">>
    [] code = 180 -> <<"getfield">> [] code = 181 -> <<"putfield">>
    [] code = 183 -> <<"invokespecial">> [] code = 189 -> <<"anewarray">>
    [] OTHER -> <<>>

(* Display for CodeInfo (opcodes.rs:172-185): <<text>>, the name and the   *)
(* operand bytes written, or <<>> where `.unwrap()` panics.                *)
CodeInfo_fmt(info) ==
  LET code_name == CODE_NAME_MAP_get(info.code) IN
  IF code_name = <<>> THEN <<>>
  ELSE <<[name |-> code_name[1],
          operands |-> info.index_byte1 \o info.index_byte2]>>

(* The loop `for code in &self.code { write!(f, "{} ", code)?; }` of       *)
(* Display for CodeAttribute (code.rs:93-106).                             *)
RECURSIVE CodeAttribute_fmt_codes(_)
CodeAttribute_fmt_codes(codes) ==
  IF codes = <<>> THEN [st |-> "Ok", out |-> <<>>]
  ELSE LET t == CodeInfo_fmt(Head(codes))
           r == CodeAttribute_fmt_codes(Tail(codes))
       IN  IF t = <<>> \/ r.st # "Ok" THEN [st |-> "Panic", out |-> <<>>]
           ELSE [st |-> "Ok", out |-> t \o r.out]

(* parse_code_infos (code.rs:34-45): the code bytes as instructions *)
RECURSIVE parse_code_infos(_)
parse_code_infos(code_bytes) ==
  IF Len(code_bytes) = 0 THEN Ok(<<>>, <<>>)
  ELSE LET r == CodeInfo_parse(code_bytes) IN
       IF r.st # "Ok" THEN r
       ELSE Prepend(r.val, parse_code_infos(r.rest))

(* parse_attributes (attribute/mod.rs:44-49) *)
parse_attributes(bytes, pool) ==
  LET n == be_u16(bytes) IN
  IF n.st # "Ok" THEN n
  ELSE count("AttributeInfo", n.rest, [pool |-> pool], n.val)

(* The end of CodeAttribute::parse (code.rs:55-74): the record, or the     *)
(* Tag error when the code bytes are not instructions.                     *)
CodeAttribute_new(h, ci, et, at) ==
  IF ci.st # "Ok" THEN Err("Tag", at.rest)
  ELSE Ok(at.rest, [max_stack |-> h[1], max_locals |-> h[2],
                    code_length |-> h[3], code |-> ci.val,
                    exception_table |-> et, attributes |-> at.val])

(* CodeAttribute::parse (code.rs:47-75) *)
CodeAttribute_parse(bytes, pool) ==
  LET h == tuple(<<"be_u16", "be_u16", "be_u32">>, bytes, <<>>) IN
  IF h.st # "Ok" THEN h
  ELSE LET code == take(h.rest, AsUsize(h.val[3])) IN
       IF code.st # "Ok" THEN code
       ELSE LET el == be_u16(code.rest) IN
            IF el.st # "Ok" THEN el
            ELSE LET et == count("ExceptionTable", el.rest, <<>>, el.val) IN
                 IF et.st # "Ok" THEN et
                 ELSE LET at == Parse("parse_attributes", et.rest, [pool |-> pool]) IN
                      IF at.st # "Ok" THEN at
                      ELSE CodeAttribute_new(h.val, parse_code_infos(code.val),
                                             et.val, at)

Attribute(variant, payload) == [variant |-> variant, payload |-> payload]

(* `Ok((bytes, Attribute::V(v)))` after `V::parse(bytes)?` *)
AttributeOf(variant, r) ==
  IF r.st # "Ok" THEN r ELSE Ok(r.rest, Attribute(variant, r.val))

(* AttributeInfo::parse_attribute (attribute/mod.rs:87-115) *)
parse_attribute(bytes, attr_str, pool) ==
  IF attr_str = CODE_ATTRIBUTE_NAME
    THEN AttributeOf("Code", Parse("CodeAttribute", bytes, [pool |-> pool]))
  ELSE IF attr_str = CONSTANT_VALUE_ATTRIBUTE_NAME
    THEN AttributeOf("Constant", ConstantValue_parse(bytes))
  ELSE IF attr_str = STACK_MAP_TABLE_ATTRIBUTE_NAME
    THEN AttributeOf("StackMapTable", Parse("StackMapTable", bytes, <<>>))
  ELSE IF attr_str = LINE_NUMBER_TABLE_ATTRIBUTE_NAME
    THEN AttributeOf("LineNumberTable", LineNumberTable_parse(bytes))
  ELSE IF attr_str = SOURCE_FILE_ATTRIBUTE_NAME
    THEN AttributeOf("SourceFile", SourceFile_parse(bytes))
  ELSE IF attr_str = DEPRECATED_ATTRIBUTE_NAME
    THEN Ok(bytes, Attribute("Deprecated", <<>>))
  ELSE Ok(bytes, Attribute("None", <<>>))

(* A payload read that decodes the payload without taking it off the stream. *)
AttrPayloadPeek(bytes, attribute_length) ==
  LET r == take(bytes, AsUsize(attribute_length)) IN
  IF r.st # "Ok" THEN r ELSE Ok(bytes, r.val)

(* `count(be_u8, attribute_length as usize)(bytes)` (attribute/mod.rs:54): *)
(* the payload is taken off the stream before it is decoded.               *)
AttrPayload(bytes, attribute_length) == take(bytes, AsUsize(attribute_length))

(* `get_constant_pool_ref()[attribute_name_index as usize - 1]`            *)
(* (attribute/mod.rs:57): <<e>> for the entry, <<>> where the index        *)
(* expression panics.  `0 - 1` panics when overflow is checked and wraps   *)
(* to usize::MAX otherwise, which is out of bounds: a panic in both.       *)
PoolIndex(pool, attribute_name_index) ==
  IF attribute_name_index = 0 THEN <<>>
  ELSE IF attribute_name_index - 1 >= Len(pool) THEN <<>>
  ELSE <<VecIndex(pool, attribute_name_index - 1)[1]>>

(* The end of AttributeInfo::parse (attribute/mod.rs:60-83): the record    *)
(* made of the result `ret` of parse_attribute, whose error becomes Tag.   *)
AttributeInfo_new(ni, al, rest, ret) ==
  IF ret.st = "Panic" THEN Err("Panic", rest)
  ELSE IF ret.st # "Ok" THEN Err("Tag", rest)
  ELSE Ok(rest, [attribute_name_index |-> ni, attribute_length |-> al,
                 attribute_info |-> ret.val])

(* AttributeInfo::parse (attribute/mod.rs:52-84) *)
AttributeInfo_parse(bytes, pool) ==
  LET h == tuple(<<"be_u16", "be_u32">>, bytes, <<>>) IN
  IF h.st # "Ok" THEN h
  ELSE LET info_v == AttrPayload(h.rest, h.val[2])
           e == PoolIndex(pool, h.val[1])
       IN  IF info_v.st # "Ok" THEN info_v
           ELSE IF e = <<>> THEN Err("Panic", info_v.rest)
           ELSE IF ~as_utf8(e[1]).some
             THEN AttributeInfo_new(h.val[1], h.val[2], info_v.rest,
                                    Ok(<<>>, Attribute("None", <<>>)))
           ELSE AttributeInfo_new(h.val[1], h.val[2], info_v.rest,
                                  parse_attribute(info_v.val, as_utf8(e[1]).text,
                                                  pool))

----------------------------------------------------------------------------
(* Inputs of the pool decoder: buffers made of encoded entries.            *)

RECURSIVE Concat(_)
Concat(ss) == IF ss = <<>> THEN <<>> ELSE Head(ss) \o Concat(Tail(ss))

PoolInputs ==
  LET PoolCatalog ==
        { <<1, 0, 1, 65>>,                       \* Utf8 "A"
          <<3, 0, 0, 0, 7>>,                     \* Integer 7
          <<5, 0, 0, 0, 0, 0, 0, 0, 9>>,         \* Long 9
          <<6, 64, 9, 33, 251, 84, 68, 45, 24>>, \* Double
          <<7, 0, 1>>,                           \* Class #1
          <<2>>,                                 \* a tag with no arm
          <<19>> }                               \* a tag with no arm (Module)
  IN  { Concat(ss) :
          ss \in UNION { [1..k -> PoolCatalog] : k \in 0..MaxEntries } }

----------------------------------------------------------------------------
(* The pool decoder, one loop iteration per step.                          *)

PoolSet(s) ==
  /\ cp_pc' = s.pc
  /\ pool_count' = s.pool_count
  /\ m_bytes' = s.m_bytes
  /\ constant_pool' = s.constant_pool

InitPool ==
  /\ overflow_checks \in BOOLEAN
  /\ RefsEmpty
  /\ cp_pc = "entry"
  /\ declared_count \in 0..MaxPoolCount
  /\ pool_count = declared_count
  /\ cp_input \in PoolInputs
  /\ m_bytes = cp_input
  /\ constant_pool = <<>>
  /\ decoded = <<>>
  /\ Idle("pool")

(* raw_class.rs:34-36 *)
PoolBegin ==
  /\ cp_pc = "entry"
  /\ PoolSet(PoolEntry(cp_input, declared_count, overflow_checks))
  /\ UNCHANGED <<cp_input, declared_count, decoded, poolFrame>>

(* raw_class.rs:37-48 *)
PoolStep ==
  /\ cp_pc = "loop"
  /\ pool_count > 0
  /\ PoolSet(PoolIter([pc |-> cp_pc, pool_count |-> pool_count,
                       m_bytes |-> m_bytes,
                       constant_pool |-> constant_pool],
                      overflow_checks))
  /\ LET r == ConstantPoolInfo_parse(m_bytes) IN
     decoded' = IF r.st = "Ok" THEN Append(decoded, r.val) ELSE decoded
  /\ UNCHANGED <<cp_input, declared_count, poolFrame>>

(* raw_class.rs:49 *)
PoolReturn ==
  /\ cp_pc = "loop"
  /\ pool_count = 0
  /\ cp_pc' = "Ok"
  /\ UNCHANGED <<cp_input, declared_count, pool_count, m_bytes, constant_pool,
                 decoded, poolFrame>>

NextPool == PoolBegin \/ PoolStep \/ PoolReturn

SpecPool == InitPool /\ [][NextPool]_vars

----------------------------------------------------------------------------
(* Properties of the pool decoder (SpecPool).                              *)

\* The slots a constant takes by the class-file format: 2 for the 8-byte
\* constants, 1 for the others.
FormatWidth(e) == IF e.info.kind \in {"Long", "Double"} THEN 2 ELSE 1

\* The logical (1-based) index of the k-th decoded entry.
RECURSIVE LogicalIndex(_, _)
LogicalIndex(es, k) ==
  IF k = 1 THEN 1 ELSE LogicalIndex(es, k - 1) + FormatWidth(es[k - 1])

(* C1: while the pool is being built and when it is returned, the k-th    *)
(* decoded entry, of logical index j, is stored at position j-1 of the    *)
(* table, and when it is a Long or a Double the slot of logical index     *)
(* j+1 holds the Empty placeholder (so the next entry goes to j+2).       *)
C1_PoolIndexInvariant ==
  cp_pc \in {"loop", "Ok"} =>
    \A k \in 1..Len(decoded) :
      LET j == LogicalIndex(decoded, k) IN
      /\ j <= Len(constant_pool)
      /\ VecIndex(constant_pool, j - 1)[1] = decoded[k]
      /\ FormatWidth(decoded[k]) = 2 =>
           /\ j + 1 <= Len(constant_pool)
           /\ VecIndex(constant_pool, j)[1] = new_empty

\* A returned pool with a single-width entry, then a Long or Double, then
\* another real entry.
C1_Witness ==
  /\ cp_pc = "Ok"
  /\ Len(decoded) >= 3
  /\ FormatWidth(decoded[1]) = 1
  /\ FormatWidth(decoded[2]) = 2
  /\ VecIndex(constant_pool, 3)[1] = decoded[3]
  /\ VecIndex(constant_pool, 2)[1] = new_empty

(* C10: a loop iteration that meets a tag byte outside the known tags     *)
(* consumes that byte only, stores a Utf8 entry with empty text in one    *)
(* slot, counts one entry and stays in the loop.                          *)
C10_UnknownTagRecoverable ==
  [][ ( /\ cp_pc = "loop"
        /\ pool_count > 0
        /\ m_bytes # <<>>
        /\ m_bytes[1] \notin KnownTags )
      => ( /\ cp_pc' = "loop"
           /\ m_bytes' = Tail(m_bytes)
           /\ constant_pool' =
                Append(constant_pool, [tag |-> 1, info |-> Utf8(<<>>)])
           /\ pool_count' = pool_count - 1 ) ]_vars

\* A returned pool whose first entry came from an unknown tag byte and
\* which holds a later entry decoded after it.
C10_Witness ==
  /\ cp_pc = "Ok"
  /\ cp_input # <<>>
  /\ cp_input[1] \notin KnownTags
  /\ Len(constant_pool) >= 2
  /\ constant_pool[1] = [tag |-> 1, info |-> Utf8(<<>>)]
  /\ constant_pool[2].info.kind = "Class"

----------------------------------------------------------------------------
(* Inputs of the attribute decoder.                                        *)

\* The pool of a class file that names every recognized attribute:
\* #1..#6 the recognized names, #7 "Foo", #8 Long (#9 its placeholder),
\* #10 Class #7.
NamePool ==
  parse_constant_pool(
    Concat(<< <<1, 0, 4>> \o CODE_ATTRIBUTE_NAME,
            <<1, 0, 13>> \o CONSTANT_VALUE_ATTRIBUTE_NAME,
            <<1, 0, 13>> \o STACK_MAP_TABLE_ATTRIBUTE_NAME,
            <<1, 0, 15>> \o LINE_NUMBER_TABLE_ATTRIBUTE_NAME,
            <<1, 0, 10>> \o SOURCE_FILE_ATTRIBUTE_NAME,
            <<1, 0, 10>> \o DEPRECATED_ATTRIBUTE_NAME,
            <<1, 0, 3, 70, 111, 111>>,
            <<5, 0, 0, 0, 0, 0, 0, 0, 9>>,
            <<7, 0, 7>> >>),
    11, TRUE).val

\* Largest declared attribute_length drawn.
MaxAttrLen == 20

AttrInputs ==
  { <<0, ni, 0, 0, 0, len>> \o body :
      ni \in 0..(Len(NamePool) + 1), len \in 0..MaxAttrLen,
      body \in
        { <<>>,
          <<0, 7>>,                                   \* one u16 index
          <<0, 1, 0, 0, 0, 7>>,                       \* count 1, pair (0, 7)
          <<0, 1, 64, 7, 0, 1>>,                      \* 1 frame: type 64, Object #1
          <<0, 2, 0, 200>>,                           \* 2 frames: type 0, type 200
          <<0, 1, 0, 1, 0, 0, 0, 1, 177, 0, 0, 0, 0>>, \* Code: return
          <<0, 1, 0, 1, 0, 0, 0, 1, 16, 0, 0, 0, 0>>,  \* Code: bipush, no operand
          <<0, 1, 0, 1, 0, 0, 0, 2, 16, 5, 0, 0, 0, 1,
            0, 6, 0, 0, 0, 0>> }                      \* Code: bipush 5; Deprecated
    }
  \cup { <<>>, <<0, 1>>, <<0, 1, 0, 0, 0>> }

InitAttr ==
  /\ overflow_checks \in BOOLEAN
  \* the table before any decode (vec![]) or after a decode of that file
  /\ CONSTANT_POOL_REF \in {<<>>, NamePool}
  /\ STRING_DATA_REF = <<>>
  /\ TYPE_ID_REF = <<>>
  /\ METHOD_ID_REF = <<>>
  /\ FIELD_ID_REF = <<>>
  /\ attr_pc = "call"
  /\ attr_input \in AttrInputs
  /\ attr_result = <<>>
  /\ Idle("attr")

AttrParse ==
  /\ attr_pc = "call"
  /\ attr_result' = Parse("AttributeInfo", attr_input, [pool |-> CONSTANT_POOL_REF])
  /\ attr_pc' = "done"
  /\ UNCHANGED <<attr_input, attrFrame>>

NextAttr == AttrParse

SpecAttr == InitAttr /\ [][NextAttr]_vars

----------------------------------------------------------------------------
(* Properties of the attribute decoder (SpecAttr).                         *)

\* The fields of the 6-byte record header of the input.
NameIndexOf(bytes) == be_u16(bytes).val

DeclaredLength(bytes) == AsUsize(be_u32(Drop(bytes, 2)).val)

\* The input holds the header and the payload the header declares.
PayloadWhole ==
  /\ Len(attr_input) >= 6
  /\ Len(attr_input) >= 6 + DeclaredLength(attr_input)

ReturnedOk == attr_pc = "done" /\ attr_result.st = "Ok"

(* C7: a decoded attribute record leaves the stream exactly 6 + length    *)
(* bytes after its start, whatever variant was decoded from the payload.  *)
C7_StreamAlignment ==
  ReturnedOk =>
    /\ PayloadWhole
    /\ attr_result.rest = Drop(attr_input, 6 + DeclaredLength(attr_input))
    /\ Len(attr_input) - Len(attr_result.rest)
         = 6 + DeclaredLength(attr_input)

\* A ConstantValue record with a declared length above the 2 bytes its
\* decoder uses, followed by more bytes of the stream.
C7_Witness ==
  /\ ReturnedOk
  /\ attr_result.val.attribute_info.variant = "Constant"
  /\ DeclaredLength(attr_input) > 2
  /\ attr_result.rest # <<>>

\* The name index of the record resolves to no recognized name in the
\* table: index 0, index beyond the table, a non-Utf8 entry, another name.
NameUnrecognized ==
  \/ NameIndexOf(attr_input) = 0
  \/ NameIndexOf(attr_input) > Len(CONSTANT_POOL_REF)
  \/ LET e == CONSTANT_POOL_REF[NameIndexOf(attr_input)] IN
     \/ e.info.kind # "Utf8"
     \/ e.info.a \notin
          {CODE_ATTRIBUTE_NAME, CONSTANT_VALUE_ATTRIBUTE_NAME,
           STACK_MAP_TABLE_ATTRIBUTE_NAME, LINE_NUMBER_TABLE_ATTRIBUTE_NAME,
           SOURCE_FILE_ATTRIBUTE_NAME, DEPRECATED_ATTRIBUTE_NAME}

(* C8: a whole record whose name is unresolvable or unrecognized decodes  *)
(* to the opaque variant; it is neither an error nor an abort.            *)
C8_UnresolvedNameIsOpaque ==
  (attr_pc = "done" /\ PayloadWhole /\ NameUnrecognized) =>
    /\ attr_result.st = "Ok"
    /\ attr_result.val.attribute_info.variant = "None"

(* C9: a record decoded to a recognized variant has a declared length     *)
(* equal to the number of payload bytes its decoder consumed.             *)
C9_DeclaredLengthIsConsumed ==
  (/\ ReturnedOk
   /\ attr_result.val.attribute_info.variant \in
        {"Code", "Constant", "StackMapTable", "LineNumberTable", "SourceFile",
         "Deprecated"})
    => LET payload == Take(Drop(attr_input, 6), DeclaredLength(attr_input))
           name == CONSTANT_POOL_REF[NameIndexOf(attr_input)].info.a
       IN  Len(payload)
             - Len(parse_attribute(payload, name, CONSTANT_POOL_REF).rest)
           = DeclaredLength(attr_input)

----------------------------------------------------------------------------
(* filed.rs, method.rs, raw_class.rs: the class file around its pool.      *)

\* 0xCAFEBABE (raw_class.rs:77)
CLASS_MAGIC == U32(51966, 47806)

(* FieldInfo::parse (filed.rs:17-33) *)
FieldInfo_parse(bytes, pool) ==
  LET h == tuple(<<"be_u16", "be_u16", "be_u16">>, bytes, <<>>) IN
  IF h.st # "Ok" THEN h
  ELSE LET at == Parse("parse_attributes", h.rest, [pool |-> pool]) IN
       IF at.st # "Ok" THEN at
       ELSE Ok(at.rest, [access_flags |-> h.val[1], name_index |-> h.val[2],
                         descriptor_index |-> h.val[3], attributes |-> at.val])

(* MethodInfo::parse (method.rs:17-35) *)
MethodInfo_parse(bytes, pool) ==
  LET h == tuple(<<"be_u16", "be_u16", "be_u16">>, bytes, <<>>) IN
  IF h.st # "Ok" THEN h
  ELSE LET at == Parse("parse_attributes", h.rest, [pool |-> pool]) IN
       IF at.st # "Ok" THEN at
       ELSE Ok(at.rest, [access_flags |-> h.val[1], name_index |-> h.val[2],
                         descriptor_index |-> h.val[3], attributes |-> at.val])

(* ClassFile::parse_fields (raw_class.rs:52-57) *)
parse_fields(bytes, pool) ==
  LET n == be_u16(bytes) IN
  IF n.st # "Ok" THEN n ELSE count("FieldInfo", n.rest, [pool |-> pool], n.val)

(* ClassFile::parse_methods (raw_class.rs:59-64) *)
parse_methods(bytes, pool) ==
  LET n == be_u16(bytes) IN
  IF n.st # "Ok" THEN n ELSE count("MethodInfo", n.rest, [pool |-> pool], n.val)

(* `tuple((be_u32, be_u16, be_u16, be_u16))(bytes)?` (raw_class.rs:75-76):  *)
(* the four fields are read before the magic is looked at.                 *)
ClassHeader(bytes) ==
  LET r == tuple(<<"be_u32", "be_u16", "be_u16", "be_u16">>, bytes, <<>>) IN
  IF r.st # "Ok" THEN r
  ELSE Ok(r.rest, [magic |-> r.val[1], minor_version |-> r.val[2],
                   major_version |-> r.val[3],
                   constant_pool_count |-> r.val[4]])

(* `let (bytes, constant_pool) = Self::parse_constant_pool(..)?`           *)
(* (raw_class.rs:84): the header with the pool cp decoded after it.        *)
ClassFile_pool(header, cp) ==
  IF cp.st # "Ok" THEN Err(cp.st, cp.rest)
  ELSE Ok(cp.rest, [header |-> header, constant_pool |-> cp.val])

(* _parse_from_u8 up to the pool (raw_class.rs:75-84) *)
ClassFile_front(bytes, oc) ==
  LET h == ClassHeader(bytes) IN
  IF h.st # "Ok" THEN h
  ELSE IF h.val.magic # CLASS_MAGIC THEN Err("Tag", h.rest)
  ELSE ClassFile_pool(h.val,
                      parse_constant_pool(h.rest, h.val.constant_pool_count, oc))

(* _parse_from_u8 after the pool is installed (raw_class.rs:86-111);      *)
(* `pool` is what CONSTANT_POOL_REF holds while it runs.                   *)
ClassFile_back(f, bytes, pool) ==
  LET h == tuple(<<"be_u16", "be_u16", "be_u16", "be_u16">>, bytes, <<>>) IN
  IF h.st # "Ok" THEN h
  ELSE LET ifs == count("be_u16", h.rest, <<>>, h.val[4]) IN
       IF ifs.st # "Ok" THEN ifs
       ELSE LET fs == Parse("parse_fields", ifs.rest, [pool |-> pool]) IN
            IF fs.st # "Ok" THEN fs
            ELSE LET ms == Parse("parse_methods", fs.rest, [pool |-> pool]) IN
                 IF ms.st # "Ok" THEN ms
                 ELSE LET at == Parse("parse_attributes", ms.rest, [pool |-> pool]) IN
                      IF at.st # "Ok" THEN at
                      ELSE Ok(at.rest,
                              [magic |-> f.header.magic,
                               minor_version |-> f.header.minor_version,
                               major_version |-> f.header.major_version,
                               constant_pool_count |-> f.header.constant_pool_count,
                               constant_pool |-> f.constant_pool,
                               access_flags |-> h.val[1],
                               this_class |-> h.val[2],
                               super_class |-> h.val[3],
                               interfaces |-> ifs.val, fields |-> fs.val,
                               methods |-> ms.val, attributes |-> at.val])

(* parse_from_u8 (raw_class.rs:66-70): the Result without the remainder.  *)
(* An error keeps its nom ErrorKind; a panic has no Result at all.         *)
ToResult(r) == [st |-> r.st, val |-> IF r.st = "Ok" THEN r.val ELSE <<>>]

\* Every static keeps the table of the decode before.
Install_kept(ref, table) == ref

(* `unsafe { crate::CONSTANT_POOL_REF = constant_pool.clone() }`           *)
(* (raw_class.rs:85) and the assignments of the dex statics                *)
(* (raw_dex.rs:247-248, 310-311): the new value of the static.             *)
Install(ref, table) == table

\* The context of the second half of the class decoder: the table the
\* static holds, and the front half f.
BackCx(pool, f) == [pool |-> pool, f |-> f]

(* A decode that installs the pool it read after the rest of the file is  *)
(* decoded: the rest is decoded under the table of the decode before.      *)
ClassFile_back_then_install(f, ref) ==
  IF f.st # "Ok" THEN [res |-> ToResult(f), CONSTANT_POOL_REF |-> ref]
  ELSE [res |-> ToResult(Parse("ClassFile_back", f.rest, BackCx(ref, f.val))),
        CONSTANT_POOL_REF |-> Install(ref, f.val.constant_pool)]

(* _parse_from_u8 from the install on (raw_class.rs:85-111), given the     *)
(* front half f: the Result and the value left in CONSTANT_POOL_REF.       *)
ClassFile_install_then_back(f, ref) ==
  IF f.st # "Ok" THEN [res |-> ToResult(f), CONSTANT_POOL_REF |-> ref]
  ELSE [res |-> ToResult(Parse("ClassFile_back", f.rest,
                               BackCx(Install(ref, f.val.constant_pool), f.val))),
        CONSTANT_POOL_REF |-> Install(ref, f.val.constant_pool)]

(* ClassFile::parse_from_u8 as one sequential call: the Result and the     *)
(* value it leaves in CONSTANT_POOL_REF.                                   *)
ClassFile_parse_from_u8(bytes, ref, oc) ==
  ClassFile_install_then_back(Parse("ClassFile_front", bytes, [oc |-> oc]), ref)

(* get_str_const(idx as usize - 1) (lib.rs:27-29) and AttributeInfo::name  *)
(* (attribute/mod.rs:154-158): <<text>>, or <<>> where the index           *)
(* expression or the unwrap panics.                                        *)
get_str_const(pool, idx) ==
  IF idx = 0 \/ idx > Len(pool) THEN <<>>
  ELSE IF ~as_utf8(VecIndex(pool, idx - 1)[1]).some THEN <<>>
  ELSE <<as_utf8(VecIndex(pool, idx - 1)[1]).text>>

(* The names a render function collects: [st |-> "Ok", names |-> texts],  *)
(* or st = "Panic" when one lookup panics.                                 *)
RECURSIVE CollectNames(_, _)
CollectNames(idxs, pool) ==
  IF idxs = <<>> THEN [st |-> "Ok", names |-> <<>>]
  ELSE LET n == get_str_const(pool, Head(idxs))
           t == CollectNames(Tail(idxs), pool)
       IN  IF n = <<>> \/ t.st # "Ok" THEN [st |-> "Panic", names |-> <<>>]
           ELSE [st |-> "Ok", names |-> n \o t.names]

(* render_interfaces, render_fields, render_methods, render_attributes     *)
(* (raw_class.rs:194-228) of a decoded ClassFile, under the table `pool`.  *)
ClassRender(class, pool) ==
  [render_interfaces |-> CollectNames(class.interfaces, pool),
   render_fields |->
     CollectNames([i \in 1..Len(class.fields) |-> class.fields[i].name_index],
                  pool),
   render_methods |->
     CollectNames([i \in 1..Len(class.methods) |-> class.methods[i].name_index],
                  pool),
   render_attributes |->
     CollectNames([i \in 1..Len(class.attributes) |->
                     class.attributes[i].attribute_name_index], pool)]

----------------------------------------------------------------------------
(* dex_parser: readers.                                                    *)

(* nom::number::complete::le_u16 *)
le_u16(bytes) ==
  IF Len(bytes) < 2 THEN Err("Eof", bytes)
  ELSE Ok(Drop(bytes, 2), bytes[1] + 256 * bytes[2])

(* nom::number::complete::le_u32 *)
le_u32(bytes) ==
  IF Len(bytes) < 4 THEN Err("Eof", bytes)
  ELSE Ok(Drop(bytes, 4),
          U32(bytes[3] + 256 * bytes[4], bytes[1] + 256 * bytes[2]))

(* `a | b` on 16-bit halves *)
RECURSIVE BitOr(_, _)
BitOr(a, b) ==
  IF a = 0 THEN b
  ELSE IF b = 0 THEN a
  ELSE (IF a % 2 = 1 \/ b % 2 = 1 THEN 1 ELSE 0) + 2 * BitOr(a \div 2, b \div 2)

OrU32(x, y) == U32(BitOr(x.hi, y.hi), BitOr(x.lo, y.lo))

RECURSIVE Pow2(_)
Pow2(n) == IF n = 0 THEN 1 ELSE 2 * Pow2(n - 1)

(* `(b as u32) << shift` for b < 128 and 0 <= shift < 32: the bits that    *)
(* leave the 32-bit word are lost.                                         *)
ShlU32(b, shift) ==
  IF shift < 16
    THEN U32((b * Pow2(shift)) \div U16, (b * Pow2(shift)) % U16)
  ELSE U32((b * Pow2(shift - 16)) % U16, 0)

\* The sum forgotten: the first operand alone.
AddU32_first_only(a, b, oc) == <<a>>

(* `a + b` on u32: <<sum>>, or <<>> for the panic of a checked overflow. *)
AddU32(a, b, oc) ==
  LET lo == a.lo + b.lo
      hi == a.hi + b.hi + lo \div U16
  IN  IF hi >= U16 /\ oc THEN <<>> ELSE <<U32(hi % U16, lo % U16)>>

(* parse_uleb128 (leb128.rs:3-16), the loop from byte k on.  The result is *)
(* [st, value, i]; st = "Panic" for a shift by 32 or more with overflow    *)
(* checks, which otherwise shifts by `shift % 32`.  When the bytes end     *)
(* inside the number the loop ends and the bits read so far are returned,  *)
(* with i one past the number of bytes.                                    *)
RECURSIVE Uleb128Loop(_, _, _, _, _, _)
Uleb128Loop(bytes, k, result, shift, i, oc) ==
  IF k > Len(bytes) THEN [st |-> "Ok", value |-> result, i |-> i]
  ELSE IF shift >= 32 /\ oc THEN [st |-> "Panic", value |-> result, i |-> i]
  ELSE IF bytes[k] < 128
    THEN [st |-> "Ok",
          value |-> OrU32(result, ShlU32(bytes[k] % 128, shift % 32)),
          i |-> i]
  ELSE Uleb128Loop(bytes, k + 1,
                   OrU32(result, ShlU32(bytes[k] % 128, shift % 32)),
                   shift + 7, i + 1, oc)

parse_uleb128(bytes, oc) == Uleb128Loop(bytes, 1, U32(0, 0), 0, 1, oc)

\* A reader that splits one byte early: the last byte of the number is
\* left in the stream.
parse_uleb128_nom_split_early(bytes, oc) ==
  LET r == parse_uleb128(bytes, oc) IN
  IF r.st # "Ok" \/ r.i - 1 > Len(bytes) THEN Err("Panic", bytes)
  ELSE Ok(Drop(bytes, r.i - 1), r.value)

(* parse_uleb128_nom (leb128.rs:18-21): `bytes.split_at(i)` panics when i  *)
(* is past the end.                                                        *)
parse_uleb128_nom(bytes, oc) ==
  LET r == parse_uleb128(bytes, oc) IN
  IF r.st # "Ok" \/ r.i > Len(bytes) THEN Err("Panic", bytes)
  ELSE Ok(Drop(bytes, r.i), r.value)

(* `origin_bytes.slice(off as usize..)` and `&origin_bytes[off as usize..]`: *)
(* a panic when the offset is past the end.                                *)
SliceFrom(origin_bytes, off) ==
  IF off > Len(origin_bytes) THEN Err("Panic", <<>>)
  ELSE Ok(Drop(origin_bytes, off), <<>>)

----------------------------------------------------------------------------
(* dex_parser/src/raw_dex.rs, class_def.rs                                 *)

\* DEX_MAGIC = 0x6465780a (raw_dex.rs:148)
DEX_MAGIC == U32(25701, 30730)

\* Absence marked by the index 0.
NO_INDEX_zero == U32(0, 0)

\* NO_INDEX = 0xffffffff (raw_dex.rs:149)
NO_INDEX == U32(65535, 65535)

\* The context of the dex parsers: the whole file, the tables the statics
\* hold, the build, and the parts of the file decoded so far.
DexCx(origin_bytes, refs, oc, f, m) ==
  [origin_bytes |-> origin_bytes, type_ref |-> refs.TYPE_ID_REF,
   field_ref |-> refs.FIELD_ID_REF, method_ref |-> refs.METHOD_ID_REF,
   oc |-> oc, f |-> f, m |-> m]

(* DexHeader::parse (raw_dex.rs:151-214).  The three fields of the first   *)
(* tuple are read before the magic is looked at; the version digits are    *)
(* computed with `- 0x30` on u32.                                          *)
DexHeader_parse(bytes, oc) ==
  LET m == tuple(<<"be_u32", "le_u32", "le_u32">>, bytes, <<>>) IN
  IF m.st # "Ok" THEN m
  ELSE IF m.val[1] # DEX_MAGIC THEN Err("Tag", m.rest)
  ELSE IF oc /\ (bytes[5] < 48 \/ bytes[6] < 48 \/ bytes[7] < 48)
    THEN Err("Panic", m.rest)
  ELSE LET sig == take(m.rest, 20) IN
       IF sig.st # "Ok" THEN sig
       ELSE LET t == count("le_u32", sig.rest, <<>>, 20) IN
            IF t.st # "Ok" THEN t
            ELSE Ok(t.rest,
                    [magic |-> m.val[1], signature |-> sig.val,
                     file_size |-> t.val[1], header_size |-> t.val[2],
                     endian_tag |-> t.val[3], link_size |-> t.val[4],
                     link_off |-> t.val[5], map_off |-> t.val[6],
                     string_ids_size |-> t.val[7], string_ids_off |-> t.val[8],
                     type_ids_size |-> t.val[9], type_ids_off |-> t.val[10],
                     proto_ids_size |-> t.val[11], proto_ids_off |-> t.val[12],
                     field_ids_size |-> t.val[13], field_ids_off |-> t.val[14],
                     method_ids_size |-> t.val[15], method_ids_off |-> t.val[16],
                     class_defs_size |-> t.val[17], class_defs_off |-> t.val[18],
                     data_size |-> t.val[19], data_off |-> t.val[20]])

(* The body of `for string_data_off in &string_ids` (raw_dex.rs:227-243). *)
StringIdItem_read(origin_bytes, string_data_off, oc) ==
  LET sl == SliceFrom(origin_bytes, AsUsize(string_data_off)) IN
  IF sl.st # "Ok" THEN sl
  ELSE LET u == parse_uleb128(sl.rest, oc) IN
       IF u.st # "Ok" THEN Err("Panic", <<>>)
       ELSE LET ob == SliceFrom(origin_bytes, AsUsize(string_data_off) + u.i) IN
            IF ob.st # "Ok" THEN ob
            ELSE LET d == take(ob.rest, AsUsize(u.value)) IN
                 IF d.st # "Ok" THEN d
                 ELSE Ok(<<>>, [string_data_off |-> string_data_off,
                                string_utf16_size |-> u.value,
                                string_data |-> d.val])

RECURSIVE StringIdItems(_, _, _)
StringIdItems(origin_bytes, string_ids, oc) ==
  IF string_ids = <<>> THEN Ok(<<>>, <<>>)
  ELSE LET r == StringIdItem_read(origin_bytes, Head(string_ids), oc) IN
       IF r.st # "Ok" THEN r
       ELSE Prepend(r.val, StringIdItems(origin_bytes, Tail(string_ids), oc))

(* TypeIdItem::parse (raw_dex.rs:419-429) *)
TypeIdItem_parse(bytes) ==
  LET x == le_u32(bytes) IN
  IF x.st # "Ok" THEN x ELSE Ok(x.rest, [descriptor_idx |-> x.val])

(* The string loop and the type ids of DexFile::parse (raw_dex.rs:226-245), *)
(* given the header h, the string offsets ids read after it, and the        *)
(* result items of the string loop.                                         *)
DexFile_types(h, ids, items) ==
  IF items.st # "Ok" THEN Err(items.st, ids.rest)
  ELSE LET t == count("TypeIdItem", ids.rest, <<>>, AsUsize(h.type_ids_size)) IN
       IF t.st # "Ok" THEN t
       ELSE Ok(t.rest, [dex_header |-> h, string_ids |-> items.val,
                        type_ids |-> t.val])

(* DexFile::parse up to the type ids (raw_dex.rs:222-245) *)
DexFile_front(bytes, oc) ==
  LET h == Parse("DexHeader", bytes, [oc |-> oc]) IN
  IF h.st # "Ok" THEN h
  ELSE LET ids == count("le_u32", h.rest, <<>>, AsUsize(h.val.string_ids_size)) IN
       IF ids.st # "Ok" THEN ids
       ELSE DexFile_types(h.val, ids, StringIdItems(bytes, ids.val, oc))

(* The map of TypeList::parse (raw_dex.rs:440-443) over the indices, under *)
(* the table TYPE_ID_REF holds: st = "Panic" when an index is out of it.   *)
RECURSIVE TypeListItems(_, _)
TypeListItems(idxs, type_ref) ==
  IF idxs = <<>> THEN Ok(<<>>, <<>>)
  ELSE LET e == VecIndex(type_ref, Head(idxs)) IN
       IF e = <<>> THEN Err("Panic", <<>>)
       ELSE Prepend(e[1], TypeListItems(Tail(idxs), type_ref))

(* TypeList::parse (raw_dex.rs:431-446) *)
TypeList_parse(bytes, type_ref) ==
  LET z == le_u32(bytes) IN
  IF z.st # "Ok" THEN z
  ELSE LET l == count("le_u16", z.rest, <<>>, AsUsize(z.val)) IN
       IF l.st # "Ok" THEN l
       ELSE LET items == TypeListItems(l.val, type_ref) IN
            IF items.st # "Ok" THEN Err("Panic", l.rest)
            ELSE Ok(l.rest, [size |-> z.val, list |-> items.val])

(* `.unwrap()` of a parse_from_u8: <<value>>, or <<>> for the panic. *)
Unwrap(r) == IF r.st # "Ok" THEN <<>> ELSE <<r.val>>

(* `origin_bytes.slice(off..)` then `TypeList::parse_from_u8(..).unwrap()` *)
(* (raw_dex.rs:260-261, 339-340): <<list>>, or <<>> for a panic.           *)
TypeListAt(origin_bytes, off, type_ref) ==
  LET sl == SliceFrom(origin_bytes, AsUsize(off)) IN
  IF sl.st # "Ok" THEN <<>>
  ELSE Unwrap(Parse("TypeList", sl.rest, [type_ref |-> type_ref]))

(* The closure of the proto map (raw_dex.rs:254-271) for one raw proto    *)
(* <<shorty_idx, return_type_idx, parameters_off>>: <<item>> or <<>> for   *)
(* a panic.  Option<TypeList> is <<list>> for Some, <<>> for None.         *)
ProtoIdItem_new(raw, origin_bytes, type_ids, type_ref) ==
  LET parameters == IF raw[3] = U32(0, 0) THEN <<>>
                    ELSE TypeListAt(origin_bytes, raw[3], type_ref)
      rt == VecIndex(type_ids, AsUsize(raw[2]))
  IN  IF raw[3] # U32(0, 0) /\ parameters = <<>> THEN <<>>
      ELSE IF rt = <<>> THEN <<>>
      ELSE <<[shorty_idx |-> raw[1], return_type_idx |-> raw[2],
              return_type |-> rt[1], parameters_off |-> raw[3],
              parameters_type_list |-> parameters]>>

RECURSIVE ProtoIdItems(_, _, _, _)
ProtoIdItems(raws, origin_bytes, type_ids, type_ref) ==
  IF raws = <<>> THEN Ok(<<>>, <<>>)
  ELSE LET e == ProtoIdItem_new(Head(raws), origin_bytes, type_ids, type_ref)
           t == ProtoIdItems(Tail(raws), origin_bytes, type_ids, type_ref)
       IN  IF e = <<>> THEN Err("Panic", <<>>) ELSE Prepend(e[1], t)

(* The closure of the field-id map (raw_dex.rs:278-286) *)
FieldIdItem_new(raw, type_ids) ==
  LET c == VecIndex(type_ids, raw[1])
      t == VecIndex(type_ids, raw[2])
  IN  IF c = <<>> \/ t = <<>> THEN <<>>
      ELSE <<[class_idx |-> raw[1], class |-> c[1], type_idx |-> raw[2],
              type_item |-> t[1], name_idx |-> raw[3]]>>

(* The closure of the method-id map (raw_dex.rs:293-301) *)
MethodIdItem_new(raw, type_ids, proto_ids) ==
  LET c == VecIndex(type_ids, raw[1])
      pr == VecIndex(proto_ids, raw[2])
  IN  IF c = <<>> \/ pr = <<>> THEN <<>>
      ELSE <<[class_idx |-> raw[1], class |-> c[1], proto_idx |-> raw[2],
              proto |-> pr[1], name_idx |-> raw[3]]>>

RECURSIVE FieldIdItems(_, _)
FieldIdItems(raws, type_ids) ==
  IF raws = <<>> THEN Ok(<<>>, <<>>)
  ELSE LET e == FieldIdItem_new(Head(raws), type_ids)
           t == FieldIdItems(Tail(raws), type_ids)
       IN  IF e = <<>> THEN Err("Panic", <<>>) ELSE Prepend(e[1], t)

RECURSIVE MethodIdItems(_, _, _)
MethodIdItems(raws, type_ids, proto_ids) ==
  IF raws = <<>> THEN Ok(<<>>, <<>>)
  ELSE LET e == MethodIdItem_new(Head(raws), type_ids, proto_ids)
           t == MethodIdItems(Tail(raws), type_ids, proto_ids)
       IN  IF e = <<>> THEN Err("Panic", <<>>) ELSE Prepend(e[1], t)

(* DexFile::parse from the proto ids to the raw class defs                 *)
(* (raw_dex.rs:250-306); `type_ref` is what TYPE_ID_REF holds meanwhile.   *)
DexFile_middle(f, bytes, origin_bytes, type_ref) ==
  LET pr == count("tuple((le_u32, le_u32, le_u32))", bytes, <<>>,
                  AsUsize(f.dex_header.proto_ids_size))
  IN
  IF pr.st # "Ok" THEN pr
  ELSE LET ps == ProtoIdItems(pr.val, origin_bytes, f.type_ids, type_ref) IN
  IF ps.st # "Ok" THEN Err("Panic", pr.rest)
  ELSE LET fr == count("tuple((le_u16, le_u16, le_u32))", pr.rest, <<>>,
                       AsUsize(f.dex_header.field_ids_size))
       IN
  IF fr.st # "Ok" THEN fr
  ELSE LET fs == FieldIdItems(fr.val, f.type_ids) IN
  IF fs.st # "Ok" THEN Err("Panic", fr.rest)
  ELSE LET mr == count("tuple((le_u16, le_u16, le_u32))", fr.rest, <<>>,
                       AsUsize(f.dex_header.method_ids_size))
       IN
  IF mr.st # "Ok" THEN mr
  ELSE LET ms == MethodIdItems(mr.val, f.type_ids, ps.val) IN
  IF ms.st # "Ok" THEN Err("Panic", mr.rest)
  ELSE LET cd == count("tuple((le_u32, le_u32, le_u32, le_u32, le_u32, le_u32, le_u32, le_u32))",
                       mr.rest, <<>>, AsUsize(f.dex_header.class_defs_size))
       IN
  IF cd.st # "Ok" THEN cd
  ELSE Ok(cd.rest, [proto_ids |-> ps.val, field_ids |-> fs.val,
                    method_ids |-> ms.val, class_defs |-> cd.val])

(* CodeItem::parse (class_def.rs:235-264) *)
CodeItem_parse(bytes) ==
  LET h == tuple(<<"le_u16", "le_u16", "le_u16", "le_u16", "le_u32", "le_u32">>,
                 bytes, <<>>)
  IN
  IF h.st # "Ok" THEN h
  ELSE LET ins == count("le_u16", h.rest, <<>>, AsUsize(h.val[6]))
           pad == IF ins.st = "Ok" /\ h.val[6].lo % 2 = 1 /\ h.val[4] > 0
                  THEN le_u16(ins.rest) ELSE ins
       IN  IF ins.st # "Ok" THEN ins
           ELSE IF pad.st # "Ok" THEN pad
           ELSE Ok(pad.rest,
                   [registers_size |-> h.val[1], ins_size |-> h.val[2],
                    outs_size |-> h.val[3], tries_size |-> h.val[4],
                    debug_info_off |-> h.val[5], insns_size |-> h.val[6],
                    insns |-> ins.val])

(* One of the two field loops of ClassDataItem::parse (class_def.rs:61-77): *)
(* n encoded fields from the cursor, cur_offset the running index.         *)
RECURSIVE EncodedFields(_, _, _, _, _)
EncodedFields(cursor, n, cur_offset, field_ref, oc) ==
  IF n = 0 THEN Ok(cursor, <<>>)
  ELSE LET e == Parse("EncodedField", cursor, [oc |-> oc]) IN
       IF e.st # "Ok" THEN e
       ELSE LET cur == AddU32(e.val[1], cur_offset, oc) IN
            IF cur = <<>> THEN Err("Panic", e.rest)
            ELSE LET f == VecIndex(field_ref, AsUsize(cur[1])) IN
                 IF f = <<>> THEN Err("Panic", e.rest)
                 ELSE Prepend([field_idx_diff |-> e.val[1],
                               access_flags |-> e.val[2].lo, field |-> f[1]],
                              EncodedFields(e.rest, n - 1, cur[1], field_ref, oc))

\* Reading a code item whatever code_off is, 0 included.
CodeItemAt_zero_is_an_offset(origin_bytes, code_off) ==
  LET c == Parse("CodeItem", Drop(origin_bytes, AsUsize(code_off)), <<>>) IN
  IF c.st # "Ok" THEN c ELSE Ok(<<>>, <<c.val>>)

(* `if method.code_off != 0 {..} else { None }` (class_def.rs:84-90):     *)
(* Ok with <<code_item>> or <<>>, or the error of the read at code_off.    *)
CodeItemAt(origin_bytes, code_off) ==
  IF code_off = U32(0, 0) THEN Ok(<<>>, <<>>)
  ELSE LET sl == SliceFrom(origin_bytes, AsUsize(code_off)) IN
       IF sl.st # "Ok" THEN sl
       ELSE LET c == Parse("CodeItem", sl.rest, <<>>) IN
            IF c.st # "Ok" THEN c ELSE Ok(<<>>, <<c.val>>)

(* One of the two method loops of ClassDataItem::parse (class_def.rs:78-113) *)
RECURSIVE EncodedMethods(_, _, _, _, _, _)
EncodedMethods(cursor, n, cur_offset, origin_bytes, method_ref, oc) ==
  IF n = 0 THEN Ok(cursor, <<>>)
  ELSE LET e == Parse("EncodedMethod", cursor, [oc |-> oc]) IN
       IF e.st # "Ok" THEN e
       ELSE LET cur == AddU32(e.val[1], cur_offset, oc) IN
            IF cur = <<>> THEN Err("Panic", e.rest)
            ELSE LET m == VecIndex(method_ref, AsUsize(cur[1])) IN
                 IF m = <<>> THEN Err("Panic", e.rest)
                 ELSE LET code == CodeItemAt(origin_bytes, e.val[3]) IN
                      IF code.st # "Ok" THEN Err(code.st, e.rest)
                      ELSE Prepend([method_idx_diff |-> e.val[1],
                                    access_flags |-> e.val[2].lo,
                                    code_off |-> e.val[3],
                                    method |-> m[1], code_item |-> code.val],
                                   EncodedMethods(e.rest, n - 1, cur[1],
                                                  origin_bytes, method_ref, oc))

(* ClassDataItem::parse (class_def.rs:48-123), under the tables            *)
(* FIELD_ID_REF and METHOD_ID_REF hold.                                    *)
ClassDataItem_parse(bytes, origin_bytes, field_ref, method_ref, oc) ==
  LET z == tuple(<<"parse_uleb128_nom", "parse_uleb128_nom",
                   "parse_uleb128_nom", "parse_uleb128_nom">>,
                 bytes, [oc |-> oc])
  IN
  IF z.st # "Ok" THEN z
  ELSE LET sf == EncodedFields(z.rest, AsUsize(z.val[1]), U32(0, 0),
                               field_ref, oc) IN
  IF sf.st # "Ok" THEN sf
  ELSE LET inf == EncodedFields(sf.rest, AsUsize(z.val[2]), U32(0, 0),
                                field_ref, oc) IN
  IF inf.st # "Ok" THEN inf
  ELSE LET dm == EncodedMethods(inf.rest, AsUsize(z.val[3]), U32(0, 0),
                                origin_bytes, method_ref, oc) IN
  IF dm.st # "Ok" THEN dm
  ELSE LET vm == EncodedMethods(dm.rest, AsUsize(z.val[4]), U32(0, 0),
                                origin_bytes, method_ref, oc) IN
  IF vm.st # "Ok" THEN vm
  ELSE Ok(vm.rest, [static_fields |-> sf.val, instance_fields |-> inf.val,
                    direct_methods |-> dm.val, virtual_methods |-> vm.val])

(* `origin_bytes.slice(class_data_off..)` then                              *)
(* `ClassDataItem::parse_from_u8(..).unwrap()` (raw_dex.rs:347-348):       *)
(* <<item>>, or <<>> for a panic.                                          *)
ClassDataItemAt(origin_bytes, off, field_ref, method_ref, oc) ==
  LET sl == SliceFrom(origin_bytes, AsUsize(off)) IN
  IF sl.st # "Ok" THEN <<>>
  ELSE Unwrap(Parse("ClassDataItem", sl.rest,
                    [origin_bytes |-> origin_bytes, field_ref |-> field_ref,
                     method_ref |-> method_ref, oc |-> oc]))

(* The closure of the class-def map (raw_dex.rs:315-366) for one raw      *)
(* class def of 8 words: <<item>>, or <<>> for a panic.                    *)
ClassDefItem_new(raw, origin_bytes, type_ids, type_ref, field_ref, method_ref, oc) ==
  LET superclass == IF raw[3] = NO_INDEX THEN <<>>
                    ELSE VecIndex(type_ids, AsUsize(raw[3]))
      interfaces == IF raw[4] = U32(0, 0) THEN <<>>
                    ELSE TypeListAt(origin_bytes, raw[4], type_ref)
      data == IF raw[7] = U32(0, 0) THEN <<>>
              ELSE ClassDataItemAt(origin_bytes, raw[7], field_ref,
                                   method_ref, oc)
      class == VecIndex(type_ids, AsUsize(raw[1]))
  IN  IF raw[3] # NO_INDEX /\ superclass = <<>> THEN <<>>
      ELSE IF raw[4] # U32(0, 0) /\ interfaces = <<>> THEN <<>>
      ELSE IF raw[7] # U32(0, 0) /\ data = <<>> THEN <<>>
      ELSE IF class = <<>> THEN <<>>
      ELSE <<[class_idx |-> raw[1], class |-> class[1],
              access_flags |-> raw[2].lo, superclass_idx |-> raw[3],
              superclass |-> superclass, interfaces_off |-> raw[4],
              interfaces |-> interfaces,
              source_file_idx |-> IF raw[5] = NO_INDEX THEN <<>> ELSE <<raw[5]>>,
              annotations_off |-> raw[6], class_data_off |-> raw[7],
              static_values_off |-> raw[8], class_data_item |-> data]>>

RECURSIVE ClassDefItems(_, _, _, _, _, _, _)
ClassDefItems(raws, origin_bytes, type_ids, type_ref, field_ref, method_ref, oc) ==
  IF raws = <<>> THEN Ok(<<>>, <<>>)
  ELSE LET e == ClassDefItem_new(Head(raws), origin_bytes, type_ids, type_ref,
                                 field_ref, method_ref, oc)
           t == ClassDefItems(Tail(raws), origin_bytes, type_ids, type_ref,
                              field_ref, method_ref, oc)
       IN  IF e = <<>> THEN Err("Panic", <<>>) ELSE Prepend(e[1], t)

(* DexFile::parse after the field and method ids are installed             *)
(* (raw_dex.rs:313-386).                                                   *)
DexFile_back(f, m, bytes, origin_bytes, type_ref, field_ref, method_ref, oc) ==
  LET cds == ClassDefItems(m.class_defs, origin_bytes, f.type_ids, type_ref,
                           field_ref, method_ref, oc)
  IN  IF cds.st # "Ok" THEN Err("Panic", bytes)
      ELSE Ok(bytes, [dex_header |-> f.dex_header,
                      string_ids |-> f.string_ids, type_ids |-> f.type_ids,
                      proto_ids |-> m.proto_ids, field_ids |-> m.field_ids,
                      method_ids |-> m.method_ids, class_defs |-> cds.val])

(* Parse(T, bytes, cx): `T::parse(bytes)` of the trait Parsable            *)
(* (base/src/lib.rs:14-29) and of nom's readers, for the parser named T.   *)
Parse(T, bytes, cx) ==
  CASE T = "be_u8" -> be_u8(bytes)
    [] T = "be_u16" -> be_u16(bytes)
    [] T = "be_u32" -> be_u32(bytes)
    [] T = "le_u16" -> le_u16(bytes)
    [] T = "le_u32" -> le_u32(bytes)
    [] T = "parse_uleb128_nom" -> parse_uleb128_nom(bytes, cx.oc)
    [] T = "ExceptionTable" -> ExceptionTable_parse(bytes)
    [] T = "VerificationTypeInfo" -> VerificationTypeInfo_parse(bytes)
    [] T = "StackMapFrame" -> StackMapFrame_parse(bytes)
    [] T = "StackMapTable" -> StackMapTable_parse(bytes)
    [] T = "CodeAttribute" -> CodeAttribute_parse(bytes, cx.pool)
    [] T = "AttributeInfo" -> AttributeInfo_parse(bytes, cx.pool)
    [] T = "parse_attributes" -> parse_attributes(bytes, cx.pool)
    [] T = "FieldInfo" -> FieldInfo_parse(bytes, cx.pool)
    [] T = "MethodInfo" -> MethodInfo_parse(bytes, cx.pool)
    [] T = "parse_fields" -> parse_fields(bytes, cx.pool)
    [] T = "parse_methods" -> parse_methods(bytes, cx.pool)
    [] T = "ClassFile_front" -> ClassFile_front(bytes, cx.oc)
    [] T = "ClassFile_back" -> ClassFile_back(cx.f, bytes, cx.pool)
    [] T = "tuple((le_u32, le_u32, le_u32))" ->
         tuple(<<"le_u32", "le_u32", "le_u32">>, bytes, cx)
    [] T = "tuple((le_u16, le_u16, le_u32))" ->
         tuple(<<"le_u16", "le_u16", "le_u32">>, bytes, cx)
    [] T = "tuple((le_u32, le_u32, le_u32, le_u32, le_u32, le_u32, le_u32, le_u32))" ->
         count("le_u32", bytes, cx, 8)
    [] T = "DexHeader" -> DexHeader_parse(bytes, cx.oc)
    [] T = "TypeIdItem" -> TypeIdItem_parse(bytes)
    [] T = "TypeList" -> TypeList_parse(bytes, cx.type_ref)
    [] T = "EncodedField" ->
         tuple(<<"parse_uleb128_nom", "parse_uleb128_nom">>, bytes, cx)
    [] T = "EncodedMethod" ->
         tuple(<<"parse_uleb128_nom", "parse_uleb128_nom",
                 "parse_uleb128_nom">>, bytes, cx)
    [] T = "CodeItem" -> CodeItem_parse(bytes)
    [] T = "ClassDataItem" ->
         ClassDataItem_parse(bytes, cx.origin_bytes, cx.field_ref,
                             cx.method_ref, cx.oc)
    [] T = "DexFile_front" -> DexFile_front(bytes, cx.oc)
    [] T = "DexFile_middle" ->
         DexFile_middle(cx.f, bytes, cx.origin_bytes, cx.type_ref)
    [] T = "DexFile_back" ->
         DexFile_back(cx.f, cx.m, bytes, cx.origin_bytes, cx.type_ref,
                      cx.field_ref, cx.method_ref, cx.oc)

\* The statics after `STRING_DATA_REF = ..` and `TYPE_ID_REF = ..`
\* (raw_dex.rs:247-248), f the part of the file decoded before them.
InstallFront(refs, f) ==
  [refs EXCEPT !.STRING_DATA_REF = Install(refs.STRING_DATA_REF, f.string_ids),
               !.TYPE_ID_REF = Install(refs.TYPE_ID_REF, f.type_ids)]

\* The statics after `FIELD_ID_REF = ..` and `METHOD_ID_REF = ..`
\* (raw_dex.rs:310-311), m the part of the file decoded before them.
InstallMiddle(refs, m) ==
  [refs EXCEPT !.FIELD_ID_REF = Install(refs.FIELD_ID_REF, m.field_ids),
               !.METHOD_ID_REF = Install(refs.METHOD_ID_REF, m.method_ids)]

(* DexFile::parse from the second install on, given the parts f and m     *)
(* decoded before it and the statics `refs` before it.                     *)
DexFile_after_middle(f, m, origin_bytes, refs, oc) ==
  IF m.st # "Ok" THEN [res |-> ToResult(m), refs |-> refs]
  ELSE [res |-> ToResult(Parse("DexFile_back", m.rest,
                               DexCx(origin_bytes, InstallMiddle(refs, m.val),
                                     oc, f.val, m.val))),
        refs |-> InstallMiddle(refs, m.val)]

(* DexFile::parse from the first install on, given the part f decoded     *)
(* before it and the statics `refs` before it.                             *)
DexFile_after_front(f, origin_bytes, refs, oc) ==
  IF f.st # "Ok" THEN [res |-> ToResult(f), refs |-> refs]
  ELSE DexFile_after_middle(
         f,
         Parse("DexFile_middle", f.rest,
               DexCx(origin_bytes, InstallFront(refs, f.val), oc, f.val, <<>>)),
         origin_bytes, InstallFront(refs, f.val), oc)

(* DexFile::parse_from_u8 as one sequential call: the Result and the     *)
(* values it leaves in the four statics (dex_parser/src/lib.rs:15-18).     *)
DexFile_parse_from_u8(bytes, refs, oc) ==
  DexFile_after_front(Parse("DexFile_front", bytes, [oc |-> oc]),
                      bytes, refs, oc)

(* get_str_const(idx as usize) (dex_parser/src/lib.rs:24-26): <<text>>, or *)
(* <<>> for the panic of an index out of the table.                        *)
dex_get_str_const(string_ref, idx) ==
  IF AsUsize(idx) >= Len(string_ref) THEN <<>>
  ELSE <<string_ref[AsUsize(idx) + 1].string_data>>

RECURSIVE DexCollect(_, _)
DexCollect(idxs, string_ref) ==
  IF idxs = <<>> THEN [st |-> "Ok", names |-> <<>>]
  ELSE LET n == dex_get_str_const(string_ref, Head(idxs))
           t == DexCollect(Tail(idxs), string_ref)
       IN  IF n = <<>> \/ t.st # "Ok" THEN [st |-> "Panic", names |-> <<>>]
           ELSE [st |-> "Ok", names |-> n \o t.names]

(* What Display writes for a decoded DexFile (raw_dex.rs:448-485,          *)
(* 520-565): TypeIdItem::descriptor, FieldIdItem::name and                 *)
(* MethodIdItem::name, under the table STRING_DATA_REF holds.              *)
DexRender(dex, string_ref) ==
  [types |-> DexCollect([i \in 1..Len(dex.type_ids) |->
                           dex.type_ids[i].descriptor_idx], string_ref),
   fields |-> DexCollect([i \in 1..Len(dex.field_ids) |->
                            dex.field_ids[i].name_idx], string_ref),
   methods |-> DexCollect([i \in 1..Len(dex.method_ids) |->
                             dex.method_ids[i].name_idx], string_ref)]

----------------------------------------------------------------------------
(* Input files.                                                            *)

\* A class file: pool #1 "Code", #2 "f", #3 "SourceFile"; class, interface,
\* field and method named by #2; the method has a Code attribute; the class
\* has a SourceFile attribute.
ClassA ==
  \* magic 0xCAFEBABE, version 0.52, constant_pool_count 4
  <<202, 254, 186, 190, 0, 0, 0, 52, 0, 4>>
  \* #1 Utf8 "Code"
    \o <<1, 0, 4, 67, 111, 100, 101>>
  \* #2 Utf8 "f"
    \o <<1, 0, 1, 102>>
  \* #3 Utf8 "SourceFile"
    \o <<1, 0, 10, 83, 111, 117, 114, 99, 101, 70, 105, 108, 101>>
  \* access_flags, this_class, super_class
    \o <<0, 33, 0, 2, 0, 2>>
  \* one interface
    \o <<0, 1, 0, 2>>
  \* one field: flags, name, descriptor, no attributes
    \o <<0, 1, 0, 1, 0, 2, 0, 2, 0, 0>>
  \* one method: flags, name, descriptor, one attribute
    \o <<0, 1, 0, 1, 0, 2, 0, 2, 0, 1>>
  \* its attribute: name #1, length 13
    \o <<0, 1, 0, 0, 0, 13>>
  \* max_stack 1, max_locals 1, code `return`, no exceptions, no attributes
    \o <<0, 1, 0, 1, 0, 0, 0, 1, 177, 0, 0, 0, 0>>
  \* one class attribute: name #3, length 2, sourcefile_index 2
    \o <<0, 1, 0, 3, 0, 0, 0, 2, 0, 2>>

\* A class file: pool #1 "g", #2 "Code", #3 a Long; the names are #1.
ClassB ==
  \* magic 0xCAFEBABE, version 0.52, constant_pool_count 5
  <<202, 254, 186, 190, 0, 0, 0, 52, 0, 5>>
  \* #1 Utf8 "g"
    \o <<1, 0, 1, 103>>
  \* #2 Utf8 "Code"
    \o <<1, 0, 4, 67, 111, 100, 101>>
  \* #3 Long 9 (and its placeholder #4)
    \o <<5, 0, 0, 0, 0, 0, 0, 0, 9>>
  \* access_flags, this_class, super_class
    \o <<0, 33, 0, 1, 0, 1>>
  \* one interface
    \o <<0, 1, 0, 1>>
  \* one field: flags, name, descriptor, no attributes
    \o <<0, 1, 0, 1, 0, 1, 0, 1, 0, 0>>
  \* one method: flags, name, descriptor, one attribute
    \o <<0, 1, 0, 1, 0, 1, 0, 1, 0, 1>>
  \* its attribute: name #2, length 13
    \o <<0, 2, 0, 0, 0, 13>>
  \* max_stack 1, max_locals 1, code `return`, no exceptions, no attributes
    \o <<0, 1, 0, 1, 0, 0, 0, 1, 177, 0, 0, 0, 0>>
  \* no class attribute
    \o <<0, 0>>

\* A class file: pool #1 "h" only; the names and the name of the method's
\* attribute are #1.
ClassC ==
  \* magic 0xCAFEBABE, version 0.52, constant_pool_count 2
  <<202, 254, 186, 190, 0, 0, 0, 52, 0, 2>>
  \* #1 Utf8 "h"
    \o <<1, 0, 1, 104>>
  \* access_flags, this_class, super_class
    \o <<0, 33, 0, 1, 0, 1>>
  \* one interface
    \o <<0, 1, 0, 1>>
  \* one field: flags, name, descriptor, no attributes
    \o <<0, 1, 0, 1, 0, 1, 0, 1, 0, 0>>
  \* one method: flags, name, descriptor, one attribute
    \o <<0, 1, 0, 1, 0, 1, 0, 1, 0, 1>>
  \* its attribute: name #1, length 13
    \o <<0, 1, 0, 0, 0, 13>>
  \* max_stack 1, max_locals 1, code `return`, no exceptions, no attributes
    \o <<0, 1, 0, 1, 0, 0, 0, 1, 177, 0, 0, 0, 0>>
  \* no class attribute
    \o <<0, 0>>

\* A dex file: strings "LA;", "f", "V"; types LA; and V; one proto with
\* parameters (V); one field and one method of LA; named "f"; one class def
\* with class data; the tables follow the header in the order read.
DexA ==
  \* magic "dex\n", version "035\0"
  <<100, 101, 120, 10, 48, 51, 53, 0>>
  \* checksum
    \o <<0, 0, 0, 0>>
  \* signature
    \o <<0, 0, 0, 0, 0, 0, 0, 0, 0, 0, 0, 0, 0>>
    \o <<0, 0, 0, 0, 0, 0, 0>>
  \* file_size 237, header_size 112, endian_tag
    \o <<237, 0, 0, 0, 112, 0, 0, 0, 120, 86, 52, 18>>
  \* link_size, link_off, map_off
    \o <<0, 0, 0, 0, 0, 0, 0, 0, 0, 0, 0, 0>>
  \* string_ids: size 3, off 112
    \o <<3, 0, 0, 0, 112, 0, 0, 0>>
  \* type_ids: size 2, off 124
    \o <<2, 0, 0, 0, 124, 0, 0, 0>>
  \* proto_ids: size 1, off 132
    \o <<1, 0, 0, 0, 132, 0, 0, 0>>
  \* field_ids: size 1, off 144
    \o <<1, 0, 0, 0, 144, 0, 0, 0>>
  \* method_ids: size 1, off 152
    \o <<1, 0, 0, 0, 152, 0, 0, 0>>
  \* class_defs: size 1, off 160
    \o <<1, 0, 0, 0, 160, 0, 0, 0>>
  \* data: size 45, off 192
    \o <<45, 0, 0, 0, 192, 0, 0, 0>>
  \* string_id_items: the offsets of "LA;", "f", "V"
    \o <<192, 0, 0, 0, 197, 0, 0, 0, 200, 0, 0, 0>>
  \* type_id_items: descriptor_idx
    \o <<0, 0, 0, 0, 2, 0, 0, 0>>
  \* proto_id_item: shorty 0, return type 0, parameters_off 203
    \o <<0, 0, 0, 0, 0, 0, 0, 0, 203, 0, 0, 0>>
  \* field_id_item: class 0, type 0, name 1
    \o <<0, 0, 0, 0, 1, 0, 0, 0>>
  \* method_id_item: class 0, proto 0, name 1
    \o <<0, 0, 0, 0, 1, 0, 0, 0>>
  \* class_def_item: class 0, access 1, no superclass,
    \o <<0, 0, 0, 0, 1, 0, 0, 0, 255, 255, 255, 255>>
  \* interfaces_off 203, no source file, no annotations,
    \o <<203, 0, 0, 0, 255, 255, 255, 255, 0, 0, 0, 0>>
  \* class_data_off 209, no static values
    \o <<209, 0, 0, 0, 0, 0, 0, 0>>
  \* string data: length, text, 0
    \o <<3, 76, 65, 59, 0, 1, 102, 0, 1, 86, 0>>
  \* type_list at 203: size, type indices
    \o <<1, 0, 0, 0, 1, 0>>
  \* class_data_item at 209: 1 static field, 0, 1 direct method, 0
    \o <<1, 0, 1, 0>>
  \* encoded_field: index 0, access 1
    \o <<0, 1>>
  \* encoded_method: index 0, access 1, code_off 219
    \o <<0, 1, 219, 1>>
  \* code_item at 219: registers 1, ins 0, outs 0, tries 0,
    \o <<1, 0, 0, 0, 0, 0, 0, 0>>
  \* debug_info_off 0, insns_size 1, `return-void`
    \o <<0, 0, 0, 0, 1, 0, 0, 0, 14, 0>>

\* A dex file: strings "g", "LB;"; type LB; only; parameters (LB;); field and
\* method named "g".
DexB ==
  \* magic "dex\n", version "035\0"
  <<100, 101, 120, 10, 48, 51, 53, 0>>
  \* checksum
    \o <<0, 0, 0, 0>>
  \* signature
    \o <<0, 0, 0, 0, 0, 0, 0, 0, 0, 0, 0, 0, 0>>
    \o <<0, 0, 0, 0, 0, 0, 0>>
  \* file_size 226, header_size 112, endian_tag
    \o <<226, 0, 0, 0, 112, 0, 0, 0, 120, 86, 52, 18>>
  \* link_size, link_off, map_off
    \o <<0, 0, 0, 0, 0, 0, 0, 0, 0, 0, 0, 0>>
  \* string_ids: size 2, off 112
    \o <<2, 0, 0, 0, 112, 0, 0, 0>>
  \* type_ids: size 1, off 120
    \o <<1, 0, 0, 0, 120, 0, 0, 0>>
  \* proto_ids: size 1, off 124
    \o <<1, 0, 0, 0, 124, 0, 0, 0>>
  \* field_ids: size 1, off 136
    \o <<1, 0, 0, 0, 136, 0, 0, 0>>
  \* method_ids: size 1, off 144
    \o <<1, 0, 0, 0, 144, 0, 0, 0>>
  \* class_defs: size 1, off 152
    \o <<1, 0, 0, 0, 152, 0, 0, 0>>
  \* data: size 42, off 184
    \o <<42, 0, 0, 0, 184, 0, 0, 0>>
  \* string_id_items: the offsets of "g", "LB;"
    \o <<184, 0, 0, 0, 187, 0, 0, 0>>
  \* type_id_items: descriptor_idx
    \o <<1, 0, 0, 0>>
  \* proto_id_item: shorty 0, return type 0, parameters_off 192
    \o <<0, 0, 0, 0, 0, 0, 0, 0, 192, 0, 0, 0>>
  \* field_id_item: class 0, type 0, name 0
    \o <<0, 0, 0, 0, 0, 0, 0, 0>>
  \* method_id_item: class 0, proto 0, name 0
    \o <<0, 0, 0, 0, 0, 0, 0, 0>>
  \* class_def_item: class 0, access 1, no superclass,
    \o <<0, 0, 0, 0, 1, 0, 0, 0, 255, 255, 255, 255>>
  \* interfaces_off 192, no source file, no annotations,
    \o <<192, 0, 0, 0, 255, 255, 255, 255, 0, 0, 0, 0>>
  \* class_data_off 198, no static values
    \o <<198, 0, 0, 0, 0, 0, 0, 0>>
  \* string data: length, text, 0
    \o <<1, 103, 0, 3, 76, 66, 59, 0>>
  \* type_list at 192: size, type indices
    \o <<1, 0, 0, 0, 0, 0>>
  \* class_data_item at 198: 1 static field, 0, 1 direct method, 0
    \o <<1, 0, 1, 0>>
  \* encoded_field: index 0, access 1
    \o <<0, 1>>
  \* encoded_method: index 0, access 1, code_off 208
    \o <<0, 1, 208, 1>>
  \* code_item at 208: registers 1, ins 0, outs 0, tries 0,
    \o <<1, 0, 0, 0, 0, 0, 0, 0>>
  \* debug_info_off 0, insns_size 1, `return-void`
    \o <<0, 0, 0, 0, 1, 0, 0, 0, 14, 0>>

----------------------------------------------------------------------------
(* One decode of one buffer (SpecDecode).                                  *)

ClassFiles == {ClassA, ClassB, ClassC}

\* The smallest class file: constant_pool_count 2 with #1 the Utf8 "Main",
\* this_class and super_class 1, nothing else.
ClassMain ==
  \* magic 0xCAFEBABE, version 0.52, constant_pool_count 2
  <<202, 254, 186, 190, 0, 0, 0, 52, 0, 2>>
  \* #1 Utf8 "Main"
    \o <<1, 0, 4, 77, 97, 105, 110>>
  \* access_flags, this_class 1, super_class 1
    \o <<0, 33, 0, 1, 0, 1>>
  \* no interface, field, method, attribute
    \o <<0, 0, 0, 0, 0, 0, 0, 0>>

DexFiles == {DexA, DexB}

DexRefs ==
  [STRING_DATA_REF |-> STRING_DATA_REF, TYPE_ID_REF |-> TYPE_ID_REF,
   FIELD_ID_REF |-> FIELD_ID_REF, METHOD_ID_REF |-> METHOD_ID_REF]

SetDexRefs(refs) ==
  /\ STRING_DATA_REF' = refs.STRING_DATA_REF
  /\ TYPE_ID_REF' = refs.TYPE_ID_REF
  /\ FIELD_ID_REF' = refs.FIELD_ID_REF
  /\ METHOD_ID_REF' = refs.METHOD_ID_REF

InitDecode ==
  /\ overflow_checks \in BOOLEAN
  /\ RefsEmpty
  /\ dec_pc = "call"
  /\ dec_format \in {"class", "dex"}
  \* every file and every truncation of it, given to either decoder
  /\ dec_input \in UNION {{Take(file, n) : n \in 0..Len(file)} :
                           file \in ClassFiles \cup DexFiles \cup {ClassMain}}
  /\ dec_result = <<>>
  /\ Idle("decode")

(* class_parser::parse (class_parser/src/lib.rs:17-19) *)
DecodeClass ==
  /\ dec_pc = "call"
  /\ dec_format = "class"
  /\ LET r == ClassFile_parse_from_u8(dec_input, CONSTANT_POOL_REF,
                                      overflow_checks)
     IN  /\ dec_result' = r.res
         /\ CONSTANT_POOL_REF' = r.CONSTANT_POOL_REF
  /\ dec_pc' = "done"
  /\ UNCHANGED <<dec_format, dec_input, STRING_DATA_REF, TYPE_ID_REF,
                 METHOD_ID_REF, FIELD_ID_REF, decFrame>>

(* dex_parser::parse (dex_parser/src/lib.rs:11-13) *)
DecodeDex ==
  /\ dec_pc = "call"
  /\ dec_format = "dex"
  /\ LET r == DexFile_parse_from_u8(dec_input, DexRefs, overflow_checks)
     IN  /\ dec_result' = r.res
         /\ SetDexRefs(r.refs)
  /\ dec_pc' = "done"
  /\ UNCHANGED <<dec_format, dec_input, CONSTANT_POOL_REF, decFrame>>

NextDecode == DecodeClass \/ DecodeDex

SpecDecode == InitDecode /\ [][NextDecode]_vars

(* C2: a buffer of at least 4 bytes whose first 4 bytes are not the       *)
(* decoder's magic is refused with the bad-magic error (ErrorKind::Tag),   *)
(* whatever follows the magic, including nothing.                          *)
C2_BadMagicIsFormatError ==
  (/\ dec_pc = "done"
   /\ Len(dec_input) >= 4
   /\ be_u32(dec_input).val #
        (IF dec_format = "class" THEN CLASS_MAGIC ELSE DEX_MAGIC))
    => dec_result.st = "Tag"

(* C3: the decode of a file cut short at any byte returns the truncation  *)
(* error (ErrorKind::Eof): no value, and no abort without an error.        *)
C3_TruncationIsErrorValue ==
  (/\ dec_pc = "done"
   /\ \E file \in (IF dec_format = "class" THEN ClassFiles ELSE DexFiles) :
        /\ Len(dec_input) < Len(file)
        /\ dec_input = Take(file, Len(dec_input)))
    => dec_result.st = "Eof"

----------------------------------------------------------------------------
(* SpecSession: one process that decodes files one after the other and     *)
(* renders the models it holds, as `pub fn parse` and the RenderSource     *)
(* methods allow.                                                          *)

\* Largest number of decodes of one session.
MaxDecodes == 3

\* The buffers a session decodes are whole files; a class file cut inside its
\* last attribute (an error after the static is written) and one cut
\* inside its header (an error before); a dex file cut inside its code
\* item (a panic after the statics are written) and one cut inside its
\* header.
InitSession ==
  /\ overflow_checks \in BOOLEAN
  /\ RefsEmpty
  /\ log = <<>>
  /\ shown = <<>>
  /\ Idle("session")

\* class_parser::parse(bytes) (class_parser/src/lib.rs:17-19)
SessionDecodeClass ==
  /\ Len(log) < MaxDecodes
  /\ \E input \in ClassFiles \cup {Take(ClassA, Len(ClassA) - 1),
                                  Take(ClassB, 9)} :
       LET r == ClassFile_parse_from_u8(input, CONSTANT_POOL_REF,
                                        overflow_checks)
       IN  /\ log' = Append(log, [format |-> "class", input |-> input,
                                  res |-> r.res])
           /\ CONSTANT_POOL_REF' = r.CONSTANT_POOL_REF
  /\ UNCHANGED <<shown, STRING_DATA_REF, TYPE_ID_REF, METHOD_ID_REF,
                 FIELD_ID_REF, sessionFrame>>

\* dex_parser::parse(bytes) (dex_parser/src/lib.rs:11-13)
SessionDecodeDex ==
  /\ Len(log) < MaxDecodes
  /\ \E input \in DexFiles \cup {Take(DexA, Len(DexA) - 1),
                                Take(DexB, 11)} :
       LET r == DexFile_parse_from_u8(input, DexRefs, overflow_checks)
       IN  /\ log' = Append(log, [format |-> "dex", input |-> input,
                                  res |-> r.res])
           /\ SetDexRefs(r.refs)
  /\ UNCHANGED <<shown, CONSTANT_POOL_REF, sessionFrame>>

\* The render_* methods of a ClassFile the process holds
\* (raw_class.rs:194-228): they read CONSTANT_POOL_REF as it is now.
SessionRenderClass ==
  /\ \E i \in 1..Len(log) :
       /\ log[i].format = "class"
       /\ log[i].res.st = "Ok"
       /\ shown' = [of |-> i,
                    out |-> ClassRender(log[i].res.val, CONSTANT_POOL_REF)]
  /\ UNCHANGED <<log, refVars, sessionFrame>>

\* The names Display writes for a DexFile the process holds: they read
\* STRING_DATA_REF as it is now.
SessionRenderDex ==
  /\ \E i \in 1..Len(log) :
       /\ log[i].format = "dex"
       /\ log[i].res.st = "Ok"
       /\ shown' = [of |-> i,
                    out |-> DexRender(log[i].res.val, STRING_DATA_REF)]
  /\ UNCHANGED <<log, refVars, sessionFrame>>

NextSession ==
  \/ SessionDecodeClass
  \/ SessionDecodeDex
  \/ SessionRenderClass
  \/ SessionRenderDex

SpecSession == InitSession /\ [][NextSession]_vars

(* C4: every name rendered for a decoded model comes from that model's    *)
(* own file's tables, whatever decodes came after it.                      *)
C4_NamesComeFromOwnTables ==
  shown # <<>> =>
    LET own == log[shown.of].res.val IN
    shown.out = IF log[shown.of].format = "class"
                  THEN ClassRender(own, own.constant_pool)
                ELSE DexRender(own, own.string_ids)

(* C6: two decodes of the same buffer by the same decoder in one session, *)
(* whatever was decoded in between, return the same model or the same     *)
(* error.                                                                  *)
C6_DecodeIsDeterministic ==
  \A i, j \in 1..Len(log) :
    (log[i].format = log[j].format /\ log[i].input = log[j].input)
      => log[i].res = log[j].res

\* A file decoded twice with success, once on the empty statics and once
\* after the decode of another whole file by the same decoder.
C6_Witness ==
  /\ Len(log) = 3
  /\ log[1].format = log[2].format /\ log[1].format = log[3].format
  /\ log[1].input = log[3].input
  /\ log[1].res.st = "Ok" /\ log[3].res.st = "Ok"
  /\ log[2].input # log[1].input
  /\ log[2].input \in ClassFiles \cup DexFiles
  /\ log[2].res.st = "Ok"

----------------------------------------------------------------------------
(* SpecConcurrent: two threads of one process, each calling `parse` on    *)
(* one file.  The statics are `static mut` and are written and read       *)
(* without synchronisation.  A step of a thread is the code between two    *)
(* accesses of a static by the decoder: up to and with the first install,  *)
(* from there up to and with the second install (dex), and the rest.       *)

Threads == {1, 2}

InitConcurrent ==
  /\ overflow_checks \in BOOLEAN
  /\ RefsEmpty
  /\ th \in [Threads ->
              {[pc |-> "front",
                format |-> IF file \in ClassFiles THEN "class" ELSE "dex",
                input |-> file, held |-> <<>>, mid |-> <<>>, raced |-> FALSE,
                res |-> <<>>] : file \in ClassFiles \cup DexFiles}]
  /\ Idle("threads")

\* The return of thread t with the Result res.
Finish(t, res) == [th EXCEPT ![t].pc = "done", ![t].res = res]

\* Thread t goes on to `pc` after an install.  A thread of the same
\* decoder that is between its own install and its return has its reads
\* of the statics unordered with this write: a data race.
Installed(t, pc, held, mid) ==
  [u \in Threads |->
     IF u = t
       THEN [th[t] EXCEPT !.pc = pc, !.held = held, !.mid = mid]
     ELSE IF th[u].format = th[t].format /\ th[u].pc \in {"middle", "back"}
       THEN [th[u] EXCEPT !.raced = TRUE]
     ELSE th[u]]

\* What the reads of the statics by a step of thread t can return: what
\* the statics hold at the step; when the reads race with a write, also
\* what this thread installed; a raced read can also end the process.
\* `view` of the steps below says which.

\* raw_class.rs:75-85 in thread t, f the result of lines 75-84.
ClassFrontReturn(t, f) ==
  IF f.st # "Ok"
    THEN th' = Finish(t, ToResult(f)) /\ UNCHANGED refVars
  ELSE /\ th' = Installed(t, "back", f, <<>>)
       /\ CONSTANT_POOL_REF' = Install(CONSTANT_POOL_REF, f.val.constant_pool)
       /\ UNCHANGED <<STRING_DATA_REF, TYPE_ID_REF, METHOD_ID_REF, FIELD_ID_REF>>

\* raw_dex.rs:222-248 in thread t, f the result of lines 222-245.
DexFrontReturn(t, f) ==
  IF f.st # "Ok"
    THEN th' = Finish(t, ToResult(f)) /\ UNCHANGED refVars
  ELSE /\ th' = Installed(t, "middle", f, <<>>)
       /\ SetDexRefs(InstallFront(DexRefs, f.val))
       /\ UNCHANGED CONSTANT_POOL_REF

ThreadFront(t) ==
  /\ th[t].pc = "front"
  /\ IF th[t].format = "class"
       THEN ClassFrontReturn(t, Parse("ClassFile_front", th[t].input,
                                      [oc |-> overflow_checks]))
     ELSE DexFrontReturn(t, Parse("DexFile_front", th[t].input,
                                  [oc |-> overflow_checks]))
  /\ UNCHANGED threadFrame

\* The tables thread t installed itself.
OwnRefs(t) ==
  [STRING_DATA_REF |-> th[t].held.val.string_ids,
   TYPE_ID_REF |-> th[t].held.val.type_ids,
   FIELD_ID_REF |-> IF th[t].pc = "back" THEN th[t].mid.val.field_ids ELSE <<>>,
   METHOD_ID_REF |-> IF th[t].pc = "back" THEN th[t].mid.val.method_ids ELSE <<>>]

\* raw_dex.rs:250-311 in thread t, m the result of lines 250-306.
DexMiddleReturn(t, m) ==
  IF m.st # "Ok"
    THEN th' = Finish(t, ToResult(m)) /\ UNCHANGED refVars
  ELSE /\ th' = Installed(t, "back", th[t].held, m)
       /\ SetDexRefs(InstallMiddle(DexRefs, m.val))
       /\ UNCHANGED CONSTANT_POOL_REF

ThreadMiddle(t) ==
  /\ th[t].pc = "middle"
  /\ \E view \in (IF th[t].raced THEN {"current", "own", "crash"}
                  ELSE {"current"}) :
       DexMiddleReturn(t,
         IF view = "crash" THEN Err("Crash", <<>>)
         ELSE Parse("DexFile_middle", th[t].held.rest,
                    DexCx(th[t].input,
                          IF view = "own" THEN OwnRefs(t) ELSE DexRefs,
                          overflow_checks,
                          th[t].held.val, <<>>)))
  /\ UNCHANGED threadFrame

\* raw_class.rs:86-111 and raw_dex.rs:313-386 in thread t.
ThreadBack(t) ==
  /\ th[t].pc = "back"
  /\ \E view \in (IF th[t].raced THEN {"current", "own", "crash"}
                  ELSE {"current"}) :
       th' = Finish(t, ToResult(
               IF view = "crash" THEN Err("Crash", <<>>)
               ELSE IF th[t].format = "class"
                 THEN Parse("ClassFile_back", th[t].held.rest,
                            BackCx(IF view = "own"
                                     THEN th[t].held.val.constant_pool
                                   ELSE CONSTANT_POOL_REF,
                                   th[t].held.val))
               ELSE Parse("DexFile_back", th[t].mid.rest,
                          DexCx(th[t].input,
                          IF view = "own" THEN OwnRefs(t) ELSE DexRefs,
                          overflow_checks,
                                th[t].held.val, th[t].mid.val))))
  /\ UNCHANGED <<refVars, threadFrame>>

NextConcurrent ==
  \E t \in Threads : ThreadFront(t) \/ ThreadMiddle(t) \/ ThreadBack(t)

SpecConcurrent == InitConcurrent /\ [][NextConcurrent]_vars

(* C5: a decode that runs concurrently with the decode of another file    *)
(* returns what it returns when it runs alone, on the empty statics.      *)
C5_ConcurrentEqualsAlone ==
  \A t \in DOMAIN th :
    th[t].pc = "done" =>
      th[t].res =
        IF th[t].format = "class"
          THEN ClassFile_parse_from_u8(th[t].input, <<>>, overflow_checks).res
        ELSE DexFile_parse_from_u8(
               th[t].input,
               [STRING_DATA_REF |-> <<>>, TYPE_ID_REF |-> <<>>,
                FIELD_ID_REF |-> <<>>, METHOD_ID_REF |-> <<>>],
               overflow_checks).res

----------------------------------------------------------------------------
(* The floating-point values of parse_float and parse_double                *)
(* (constant_pool.rs:38-76).  A finite value is sign * m * 2^x, with m the  *)
(* integer the code builds (for a double its four 16-bit limbs, the highest *)
(* first); a zero has m zero and x = 0.                                     *)
FloatValue(kind, sign, m, x) == [kind |-> kind, sign |-> sign, m |-> m, x |-> x]

\* f32: `powi(e - 150)`, 24 significant bits, largest power 2^127, smallest
\* 2^-149.  f64: `powi(e - 1075)`, 53 bits, 2^1023, 2^-1074.
Float32 == [K |-> 150, P |-> 24, max |-> 128, min |-> -149, zero |-> 0]

Float64 ==
  [K |-> 1075, P |-> 53, max |-> 1024, min |-> -1074, zero |-> <<0, 0, 0, 0>>]

(* `2.0.powi(n)` in the format f.  Its precision depends on the platform   *)
(* and the build: either the power rounded to the format (rounded), or the *)
(* compiler-builtins routine, which multiplies up 2^|n| and for n < 0      *)
(* returns 1 / 2^|n|, so 0 as soon as 2^|n| overflows to infinity.         *)
powi(n, f, rounded) ==
  IF n >= f.max THEN [kind |-> "Infinity", x |-> 0]
  ELSE IF rounded /\ n < f.min THEN [kind |-> "Zero", x |-> 0]
  ELSE IF ~rounded /\ -n >= f.max THEN [kind |-> "Zero", x |-> 0]
  ELSE [kind |-> "Pow2", x |-> n]

(* `s * (m as f) * 2.0.powi(e - K)` (constant_pool.rs:53, 74).  s * m is   *)
(* exact; the product with a power of two is exact unless it overflows,    *)
(* which it does when m has its leading bit (e >= 1) and e - K + P > max.  *)
FloatProduct(sign, m, e, f, rounded) ==
  LET pw == powi(e - f.K, f, rounded) IN
  IF m = f.zero \/ pw.kind = "Zero" THEN FloatValue("Finite", sign, f.zero, 0)
  ELSE IF pw.kind = "Infinity" \/ (e >= 1 /\ e - f.K + f.P > f.max)
    THEN FloatValue("Infinity", sign, f.zero, 0)
  ELSE FloatValue("Finite", sign, m, pw.x)

(* parse_float (constant_pool.rs:38-55) on the u32 `value`. *)
parse_float(bits, rounded) ==
  IF bits = U32(32640, 0) THEN FloatValue("Infinity", 1, 0, 0)
  ELSE IF bits = U32(65408, 0) THEN FloatValue("Infinity", -1, 0, 0)
  ELSE IF bits = U32(32704, 0) THEN FloatValue("NaN", 1, 0, 0)
  ELSE LET sign == IF bits.hi \div 32768 = 0 THEN 1 ELSE -1
           e == (bits.hi \div 128) % 256
           fraction == (bits.hi % 128) * U16 + bits.lo
           m == IF e = 0 THEN fraction * 2 ELSE fraction + 8388608
       IN  FloatProduct(sign, m, e, Float32, rounded)

(* parse_double (constant_pool.rs:57-76) on the u64 `hi << 32 | lo`        *)
(* (constant_pool.rs:152-154), given as [hi, lo] of u32.                   *)
parse_double(bits, rounded) ==
  LET top == bits.hi.hi
      low == <<bits.hi.lo, bits.lo.hi, bits.lo.lo>>
  IN
  IF top = 32752 /\ low = <<0, 0, 0>> THEN FloatValue("Infinity", 1, Float64.zero, 0)
  ELSE IF top = 65520 /\ low = <<0, 0, 0>>
    THEN FloatValue("Infinity", -1, Float64.zero, 0)
  ELSE IF (top >= 32752 /\ top <= 32767) \/ top >= 65520
    THEN FloatValue("NaN", 1, Float64.zero, 0)
  ELSE LET sign == IF top \div 32768 = 0 THEN 1 ELSE -1
           e == (top \div 16) % 2048
           m == IF e = 0
                  THEN <<(top % 16) * 2 + (low[1] \div 32768),
                         ((low[1] * 2) % U16) + (low[2] \div 32768),
                         ((low[2] * 2) % U16) + (low[3] \div 32768),
                         (low[3] * 2) % U16>>
                ELSE <<(top % 16) + 16, low[1], low[2], low[3]>>
       IN  FloatProduct(sign, m, e, Float64, rounded)

----------------------------------------------------------------------------
(* SpecCall: one call of one of the readers or parsers on its own, on      *)
(* arguments drawn from the cases its callers can hand it.                 *)

\* Largest number of bytes with the continuation bit at the head of a varint.
MaxVarintLen == 6

\* The u32 values encoded: every pair of 16-bit halves at the ends of the
\* ranges of 1, 2, 3 bytes of the low half, so encodings of 1 to 5 bytes.
LebValues ==
  {U32(hi, lo) : hi, lo \in {0, 1, 127, 128, 16383, 16384, 65535}}

\* The bytes that follow a varint in the stream.
LebTails == {<<>>, <<0>>, <<128>>, <<255, 1>>}

(* The canonical unsigned LEB128 encoding of the u32 v: 7 bits per byte,   *)
(* least-significant group first, the high bit on every byte but the last. *)
RECURSIVE encode_uleb128(_)
encode_uleb128(v) ==
  IF v.hi = 0 /\ v.lo < 128 THEN <<v.lo>>
  ELSE <<128 + (v.lo % 128)>>
         \o encode_uleb128(U32(v.hi \div 128,
                               v.lo \div 128 + (v.hi % 128) * 512))

\* The buffers given to the varint reader: canonical encodings followed by
\* more of the stream, and varints with the continuation bit on 5 bytes or more.
LebInputs ==
  {encode_uleb128(v) \o t : v \in LebValues, t \in LebTails}
  \cup UNION {{s \o t : s \in [1..k -> {128, 255}], t \in {<<>>, <<1>>, <<127>>}} :
                k \in 5..MaxVarintLen}

\* The field and method tables installed when class data is read: index k
\* holds the item whose name_idx is k, so an item tells the index it was
\* looked up at.
IdTableLen == 9

TypeId0 == [descriptor_idx |-> U32(0, 0)]

FieldTable ==
  [k \in 1..IdTableLen |->
     FieldIdItem_new(<<0, 0, U32(0, k - 1)>>, <<TypeId0>>)[1]]

MethodTable ==
  [k \in 1..IdTableLen |->
     MethodIdItem_new(<<0, 0, U32(0, k - 1)>>, <<TypeId0>>,
                      ProtoIdItem_new(<<U32(0, 0), U32(0, 0), U32(0, 0)>>,
                                      <<>>, <<TypeId0>>, <<TypeId0>>))[1]]

\* Two code items as encoded: A with 1 instruction and no tries, B with 1
\* instruction and 1 try, hence 2 bytes of padding after the instructions.
CodeBytes(c) ==
  IF c = "A" THEN <<1, 0, 0, 0, 0, 0, 0, 0, 0, 0, 0, 0, 1, 0, 0, 0, 14, 0>>
  ELSE <<2, 0, 1, 0, 0, 0, 1, 0, 0, 0, 0, 0, 1, 0, 0, 0, 18, 0, 0, 0>>

\* The lists of index differences of the encoded fields of one list.
FieldDiffs == {<<>>, <<0>>, <<5, 0, 3>>, <<3, 5>>, <<8, 1>>}

\* The lists of <<index difference, code>> of the encoded methods of one
\* list; code is "none" (code_off = 0), "A" (before the class data), "B"
\* (after it) or "X" (beyond the end of the buffer).
MethodDiffs ==
  {<<>>, <<<<1, "B">>, <<0, "A">>>>, <<<<0, "A">>, <<2, "A">>, <<1, "none">>>>,
   <<<<2, "none">>, <<6, "B">>>>, <<<<4, "X">>>>, <<<<7, "A">>, <<1, "B">>>>}

ClassDataCases ==
  [sf : FieldDiffs, inf : FieldDiffs, dm : MethodDiffs, vm : MethodDiffs]

\* The number of bytes of the class data of case p: 4 sizes, 2 varints per
\* field and 3 per method, each of one byte.
ClassDataLen(p) ==
  4 + 2 * (Len(p.sf) + Len(p.inf)) + 3 * (Len(p.dm) + Len(p.vm))

\* Where the code of a method lies in the buffer: 1 byte, code A, the class
\* data, code B.
CodeOff(p, c) ==
  CASE c = "none" -> 0
    [] c = "A" -> 1
    [] c = "B" -> 1 + Len(CodeBytes("A")) + ClassDataLen(p)
    [] c = "X" -> 127

RECURSIVE EncodeFields(_)
EncodeFields(diffs) ==
  IF diffs = <<>> THEN <<>>
  ELSE encode_uleb128(U32(0, Head(diffs))) \o encode_uleb128(U32(0, 1))
         \o EncodeFields(Tail(diffs))

RECURSIVE EncodeMethods(_, _)
EncodeMethods(p, ms) ==
  IF ms = <<>> THEN <<>>
  ELSE encode_uleb128(U32(0, Head(ms)[1])) \o encode_uleb128(U32(0, 1))
         \o encode_uleb128(U32(0, CodeOff(p, Head(ms)[2])))
         \o EncodeMethods(p, Tail(ms))

\* The class data of case p as encoded (class_def.rs:52-115 read backwards).
ClassDataBytes(p) ==
  <<Len(p.sf), Len(p.inf), Len(p.dm), Len(p.vm)>>
    \o EncodeFields(p.sf) \o EncodeFields(p.inf)
    \o EncodeMethods(p, p.dm) \o EncodeMethods(p, p.vm)

\* The arguments of a ClassDataItem::parse call: the whole buffer, and the
\* offset of the class data in it; `diffs` remembers what was encoded.
ClassDataArgs ==
  {[diffs |-> p,
    origin_bytes |-> <<0>> \o CodeBytes("A") \o ClassDataBytes(p) \o CodeBytes("B"),
    class_data_off |-> 1 + Len(CodeBytes("A"))] : p \in ClassDataCases}

\* Verification types as decoded, and the lists of them put in frames.
VtLists ==
  {<<[vt |-> "Integer", arg |-> 0], [vt |-> "Object", arg |-> 5],
     [vt |-> "Uninitialized", arg |-> 256]>>,
   <<[vt |-> "Object", arg |-> 513], [vt |-> "Invalid", arg |-> 0],
     [vt |-> "Top", arg |-> 0]>>}

\* A verification type as encoded (stack_map_table.rs:129-150 read backwards).
RECURSIVE EncodeVts(_)
EncodeVts(vs) ==
  IF vs = <<>> THEN <<>>
  ELSE (CASE Head(vs).vt = "Top" -> <<0>>
          [] Head(vs).vt = "Integer" -> <<1>>
          [] Head(vs).vt = "Invalid" -> <<200>>
          [] Head(vs).vt = "Object" ->
               <<7, Head(vs).arg \div 256, Head(vs).arg % 256>>
          [] Head(vs).vt = "Uninitialized" ->
               <<8, Head(vs).arg \div 256, Head(vs).arg % 256>>)
         \o EncodeVts(Tail(vs))

\* The frames encoded: every frame-type byte t; a FullFrame with nl locals
\* and ns stack items out of the list vs; offset_delta 258 where there is one.
FrameCases ==
  [t : 0..254, vs : VtLists, nl : {0}, ns : {0}]
  \cup [t : {255}, vs : VtLists, nl : 0..2, ns : 0..2]

\* The frame of case c as encoded.
FrameBytes(c) ==
  <<c.t>> \o
  (CASE c.t <= 63 -> <<>>
     [] c.t \in 64..127 -> EncodeVts(Take(c.vs, 1))
     [] c.t \in 128..246 -> <<>>
     [] c.t = 247 -> <<1, 2>> \o EncodeVts(Take(c.vs, 1))
     [] c.t \in 248..251 -> <<1, 2>>
     [] c.t \in 252..254 -> <<1, 2>> \o EncodeVts(Take(c.vs, c.t - 251))
     [] c.t = 255 -> <<1, 2, 0, c.nl>> \o EncodeVts(Take(c.vs, c.nl))
                       \o <<0, c.ns>> \o EncodeVts(Drop(c.vs, 3 - c.ns)))

\* The frames that follow the frame of the case in a table of 2 or 3 frames:
\* a SameFrameExtended and a SameLocals1StackItemFrame.
FramesAfter == <<<<251, 0, 7>>, <<64, 7, 0, 5>>>>

\* The arguments of a StackMapTable::parse call: a table of n frames, the
\* first the frame of case c, followed by two more bytes of the attribute.
StackMapTableArgs ==
  {[frame |-> c, n |-> n,
    bytes |-> <<0, n>> \o FrameBytes(c)
                \o (IF n >= 2 THEN FramesAfter[1] ELSE <<>>)
                \o (IF n >= 3 THEN FramesAfter[2] ELSE <<>>)
                \o <<9, 9>>] : c \in FrameCases, n \in 1..3}

\* The type ids installed in TYPE_ID_REF when class defs are read.
TypeTable == <<TypeId0, [descriptor_idx |-> U32(0, 1)]>>

\* The buffer of the class defs: that of one class data, then a type list
\* of the types 1 and 0.
ClassDefOrigin ==
  <<0>> \o CodeBytes("A")
    \o ClassDataBytes([sf |-> <<5, 0, 3>>, inf |-> <<>>,
                       dm |-> <<<<1, "B">>, <<0, "A">>>>, vm |-> <<>>])
    \o CodeBytes("B") \o <<2, 0, 0, 0, 1, 0, 0, 0>>

\* The arguments of the closure of the class-def map: a raw class def of 8
\* words.  Index 2 is beyond the 2 type ids, offset 200 beyond the buffer.
ClassDefArgs ==
  {[origin_bytes |-> ClassDefOrigin,
    raw |-> <<U32(0, class_idx), U32(0, 1), superclass_idx, U32(0, interfaces_off),
              source_file_idx, U32(0, 0), U32(0, class_data_off), U32(0, 0)>>] :
     class_idx \in {0, 1},
     superclass_idx \in {NO_INDEX, U32(0, 0), U32(0, 1), U32(0, 2)},
     interfaces_off \in {0, Len(ClassDefOrigin) - 8, 200},
     source_file_idx \in {NO_INDEX, U32(0, 0), U32(0, 7), U32(65535, 65534)},
     class_data_off \in {0, 1 + Len(CodeBytes("A"))}}

\* The u32 values given to parse_float: zeros, subnormals, the smallest
\* normal numbers (exponent fields 1, 22 and 23), 1.0, -1.0, pi, the largest
\* number, the three special patterns and other patterns of exponent 255.
FloatPatterns ==
  {U32(0, 0), U32(32768, 0), U32(0, 1), U32(127, 65535), U32(128, 0),
   U32(2816, 0), U32(2944, 0), U32(16256, 0), U32(49024, 0),
   U32(16457, 4059), U32(32639, 65535), U32(32640, 0), U32(65408, 0),
   U32(32704, 0), U32(32640, 1), U32(65472, 0), U32(32767, 65535)}

\* The u64 values given to parse_double, likewise (exponent fields 1, 51, 52).
DoublePatterns ==
  {[hi |-> U32(a, b), lo |-> U32(c, d)] :
     <<a, b, c, d>> \in
       {<<0, 0, 0, 0>>, <<32768, 0, 0, 0>>, <<0, 0, 0, 1>>,
        <<15, 65535, 65535, 65535>>, <<16, 0, 0, 0>>, <<816, 0, 0, 0>>,
        <<832, 0, 0, 0>>, <<16368, 0, 0, 0>>, <<49136, 0, 0, 0>>,
        <<16393, 8699, 21572, 11544>>, <<32751, 65535, 65535, 65535>>,
        <<32752, 0, 0, 0>>, <<65520, 0, 0, 0>>, <<32752, 0, 0, 1>>,
        <<32760, 0, 0, 0>>, <<65520, 0, 0, 1>>, <<65535, 65535, 65535, 65535>>}}

\* Largest code_length of the Code attributes drawn.
MaxCodeLen == 4

\* The bytes of the code arrays: 0 (nop) and 167 (goto), which the operand
\* table does not hold, 16 (bipush, 1 operand), 17 (sipush, 2 operands),
\* 177 (return, no operand).
CodeByteSet == {0, 16, 17, 167, 177}

\* The arguments of a CodeAttribute::parse call: max_stack 2, max_locals 1,
\* code_length and the code, no exception table, no attribute.
CodeAttributeArgs ==
  {[code |-> c,
    bytes |-> <<0, 2, 0, 1, 0, 0, 0, Len(c)>> \o c \o <<0, 0, 0, 0>>] :
     c \in UNION {[1..k -> CodeByteSet] : k \in 0..MaxCodeLen}}

\* The arguments drawn for a call of fn.
----------------------------------------------------------------------------
(* dex_parser/src/utf.rs: the decoder of the modified UTF-8 of a dex        *)
(* string into UTF-16 code units.                                          *)

\* `one & mask == 0` for a mask of one bit
BitClear(b, mask) == (b \div mask) % 2 = 0

(* parse_utf16 (utf.rs:3-29): the character at the head of the bytes, as    *)
(* the code units <<leading, tailing>> of `ch & 0xffff` and `ch >> 16`     *)
(* (utf.rs:38): tailing is 0 but for a 4-byte character.                   *)
parse_utf16(bytes) ==
  LET b1 == be_u8(bytes) IN
  IF b1.st # "Ok" THEN b1
  ELSE IF BitClear(b1.val, 128) THEN Ok(b1.rest, <<b1.val, 0>>)
  ELSE LET b2 == be_u8(b1.rest) IN
  IF b2.st # "Ok" THEN b2
  ELSE IF BitClear(b1.val, 32)
    THEN Ok(b2.rest, <<(b1.val % 32) * 64 + (b2.val % 64), 0>>)
  ELSE LET b3 == be_u8(b2.rest) IN
  IF b3.st # "Ok" THEN b3
  ELSE IF BitClear(b1.val, 16)
    THEN Ok(b3.rest, <<(b1.val % 16) * 4096 + (b2.val % 64) * 64 + (b3.val % 64),
                       0>>)
  ELSE LET b4 == be_u8(b3.rest) IN
  IF b4.st # "Ok" THEN b4
  ELSE LET code_point == (b1.val % 8) * 262144 + (b2.val % 64) * 4096
                           + (b3.val % 64) * 64 + (b4.val % 64)
       IN  Ok(b4.rest, <<((code_point \div 1024) + 55232) % U16,
                         ((code_point % 1024) + 56320) % U16>>)

(* parse_utf16_str (utf.rs:31-46): the code units up to the 0 byte;        *)
(* `m_bytes[0]` panics when the bytes end without one.                     *)
RECURSIVE parse_utf16_str(_)
parse_utf16_str(bytes) ==
  IF bytes = <<>> THEN Err("Panic", <<>>)
  ELSE IF bytes[1] = 0 THEN Ok(bytes, <<>>)
  ELSE LET c == parse_utf16(bytes) IN
       IF c.st # "Ok" THEN c
       ELSE LET t == parse_utf16_str(c.rest) IN
            IF t.st # "Ok" THEN t
            ELSE Ok(t.rest, (IF c.val[2] # 0 THEN c.val ELSE <<c.val[1]>>)
                              \o t.val)

----------------------------------------------------------------------------
(* The string loop of DexFile::parse on its own (SpecCall).                *)

\* Longest text, in characters, of a string data item drawn.
MaxTextLen == 2

\* Characters of 1, 2 and 3 bytes: "A", U+00E9, U+20AC.
MutfChars == {<<65>>, <<195, 169>>, <<226, 130, 172>>}

\* Texts, each a sequence of characters.
MutfTexts == UNION {[1..k -> MutfChars] : k \in 0..MaxTextLen}

\* A string_data_item: utf16_size as a varint (every character drawn is
\* one code unit), the bytes, and the 0 byte.
StringDataItem(text) ==
  encode_uleb128(U32(0, Len(text))) \o Concat(text) \o <<0>>

\* Files of two string data items, and their offsets in either order.
StringIdArgs ==
  UNION { { [origin_bytes |-> StringDataItem(s) \o StringDataItem(t),
             string_ids |-> <<U32(0, 0), U32(0, Len(StringDataItem(s)))>>,
             texts |-> <<s, t>>],
            [origin_bytes |-> StringDataItem(s) \o StringDataItem(t),
             string_ids |-> <<U32(0, Len(StringDataItem(s))), U32(0, 0)>>,
             texts |-> <<t, s>>] } : s \in MutfTexts, t \in MutfTexts }

\* `for string_data_off in &string_ids { .. }` (raw_dex.rs:227-243)
CallStringIdItems ==
  /\ call_pc = "call"
  /\ call_fn = "StringIdItems"
  /\ call_result' = StringIdItems(call_arg.origin_bytes, call_arg.string_ids,
                                  overflow_checks)
  /\ call_pc' = "done"
  /\ UNCHANGED <<call_fn, call_arg, callFrame>>


----------------------------------------------------------------------------
(* base/src/access_flag.rs                                                 *)

\* The masks ACC_* (access_flag.rs:26-43)
ACC_PUBLIC == 1
ACC_PRIVATE == 2
ACC_PROTECTED == 4
ACC_STATIC == 8
ACC_FINAL == 16
ACC_SUPER == 32
ACC_SYNCHRONIZED == 32
ACC_VOLATILE == 64
ACC_BRIDGE == 64
ACC_TRANSIENT == 128
ACC_VARARGS == 128
ACC_NATIVE == 256
ACC_INTERFACE == 512
ACC_ABSTRACT == 1024
ACC_STRICT == 2048
ACC_SYNTHETIC == 4096
ACC_ANNOTATION == 8192
ACC_ENUM == 16384

\* CLASS_ACC (access_flag.rs:49-58)
CLASS_ACC ==
  << <<ACC_PUBLIC, "Public">>, <<ACC_FINAL, "Final">>, <<ACC_SUPER, "Super">>,
     <<ACC_INTERFACE, "Interface">>, <<ACC_ABSTRACT, "Abstract">>,
     <<ACC_SYNTHETIC, "Synthetic">>, <<ACC_ANNOTATION, "Annotation">>,
     <<ACC_ENUM, "Enum">> >>

\* FIELD_ACC (access_flag.rs:60-70)
FIELD_ACC ==
  << <<ACC_PUBLIC, "Public">>, <<ACC_PRIVATE, "Private">>,
     <<ACC_PROTECTED, "Protected">>, <<ACC_STATIC, "Static">>,
     <<ACC_FINAL, "Final">>, <<ACC_VOLATILE, "Volatile">>,
     <<ACC_TRANSIENT, "Transient">>, <<ACC_SYNTHETIC, "Synthetic">>,
     <<ACC_ENUM, "Enum">> >>

\* METHOD_ACC (access_flag.rs:72-85)
METHOD_ACC ==
  << <<ACC_PUBLIC, "Public">>, <<ACC_PRIVATE, "Private">>,
     <<ACC_PROTECTED, "Protected">>, <<ACC_STATIC, "Static">>,
     <<ACC_FINAL, "Final">>, <<ACC_SYNCHRONIZED, "Synchronized">>,
     <<ACC_BRIDGE, "Bridge">>, <<ACC_VARARGS, "Varargs">>,
     <<ACC_NATIVE, "Native">>, <<ACC_ABSTRACT, "Abstract">>,
     <<ACC_STRICT, "Strict">>, <<ACC_SYNTHETIC, "Synthetic">> >>

\* `a & b` on u16
RECURSIVE BitAnd(_, _)
BitAnd(a, b) ==
  IF a = 0 \/ b = 0 THEN 0
  ELSE (IF a % 2 = 1 /\ b % 2 = 1 THEN 1 ELSE 0) + 2 * BitAnd(a \div 2, b \div 2)

\* `.iter().filter(|(i, _)| flag & i == *i).map(|(_, af)| *af).collect()`
RECURSIVE FilterFlags(_, _)
FilterFlags(table, flag) ==
  IF table = <<>> THEN <<>>
  ELSE (IF BitAnd(flag, Head(table)[1]) = Head(table)[1]
          THEN <<Head(table)[2]>> ELSE <<>>)
       \o FilterFlags(Tail(table), flag)

\* AccessFlags(Vec<AccessFlag>, u16) (access_flag.rs:87)
AccessFlags(flags, flag) == [flags |-> flags, raw |-> flag]

\* new_class_flag (access_flag.rs:90-97)
new_class_flag(flag) == AccessFlags(FilterFlags(CLASS_ACC, flag), flag)

\* The flags of a field looked up in the table of the methods.
new_field_flag_method_table(flag) ==
  AccessFlags(FilterFlags(METHOD_ACC, flag), flag)

\* new_field_flag (access_flag.rs:99-106)
new_field_flag(flag) == AccessFlags(FilterFlags(FIELD_ACC, flag), flag)

\* new_method_flag (access_flag.rs:108-115)
new_method_flag(flag) == AccessFlags(FilterFlags(METHOD_ACC, flag), flag)

\* Most bits set in a mask drawn.
MaxFlagBits == 3

\* The masks of at most MaxFlagBits bits, bit 15 (no ACC_ constant) included.
RECURSIVE SumOf(_)
SumOf(S) == IF S = {} THEN 0 ELSE LET x == CHOOSE y \in S : TRUE
                                  IN  x + SumOf(S \ {x})

FlagMasks ==
  { SumOf({Pow2(b) : b \in B}) :
      B \in {C \in SUBSET (0..15) : Cardinality(C) <= MaxFlagBits} }

AccessFlagArgs ==
  {[kind |-> k, flag |-> m] : k \in {"class", "field", "method"}, m \in FlagMasks}

\* AccessFlags::new_class_flag, new_field_flag, new_method_flag on a mask
CallAccessFlags ==
  /\ call_pc = "call"
  /\ call_fn = "AccessFlags"
  /\ call_result' = CASE call_arg.kind = "class" -> new_class_flag(call_arg.flag)
                      [] call_arg.kind = "field" -> new_field_flag(call_arg.flag)
                      [] call_arg.kind = "method" -> new_method_flag(call_arg.flag)
  /\ call_pc' = "done"
  /\ UNCHANGED <<call_fn, call_arg, callFrame>>

CallArgs(fn) ==
  CASE fn = "parse_uleb128_nom" -> LebInputs
    [] fn = "ClassDataItem" -> ClassDataArgs
    [] fn = "StackMapTable" -> StackMapTableArgs
    [] fn = "ClassDefItem" -> ClassDefArgs
    [] fn = "parse_float" -> FloatPatterns
    [] fn = "CodeAttribute" -> CodeAttributeArgs
    [] fn = "StringIdItems" -> StringIdArgs
    [] fn = "AccessFlags" -> AccessFlagArgs
    [] fn = "parse_double" -> DoublePatterns

\* A call made while a dex file is decoded, at the point where its tables
\* are installed (raw_dex.rs:247-248, 310-311).
InitCall ==
  /\ overflow_checks \in BOOLEAN
  /\ CONSTANT_POOL_REF = <<>>
  /\ STRING_DATA_REF = <<>>
  /\ TYPE_ID_REF = TypeTable
  /\ METHOD_ID_REF = MethodTable
  /\ FIELD_ID_REF = FieldTable
  /\ Idle("call")
  /\ call_pc = "call"
  /\ call_fn \in {"parse_uleb128_nom", "ClassDataItem", "StackMapTable",
                "ClassDefItem", "parse_float", "parse_double",
                "CodeAttribute", "StringIdItems",
                "AccessFlags"}
  /\ call_arg \in CallArgs(call_fn)
  /\ call_result = <<>>

\* parse_uleb128_nom(bytes) (leb128.rs:18-21)
CallUleb128 ==
  /\ call_pc = "call"
  /\ call_fn = "parse_uleb128_nom"
  /\ call_result' = Parse("parse_uleb128_nom", call_arg,
                          [oc |-> overflow_checks])
  /\ call_pc' = "done"
  /\ UNCHANGED <<call_fn, call_arg, callFrame>>

\* ClassDataItem::parse(bytes, origin_bytes) (class_def.rs:48-123), bytes
\* being `origin_bytes.slice(class_data_off..)` (raw_dex.rs:347).
CallClassDataItem ==
  /\ call_pc = "call"
  /\ call_fn = "ClassDataItem"
  /\ call_result' = Parse("ClassDataItem",
                          Drop(call_arg.origin_bytes, call_arg.class_data_off),
                          [origin_bytes |-> call_arg.origin_bytes,
                           field_ref |-> FIELD_ID_REF,
                           method_ref |-> METHOD_ID_REF,
                           oc |-> overflow_checks])
  /\ call_pc' = "done"
  /\ UNCHANGED <<call_fn, call_arg, callFrame>>

\* StackMapTable::parse(bytes) (stack_map_table.rs:46-64)
CallStackMapTable ==
  /\ call_pc = "call"
  /\ call_fn = "StackMapTable"
  /\ call_result' = Parse("StackMapTable", call_arg.bytes, <<>>)
  /\ call_pc' = "done"
  /\ UNCHANGED <<call_fn, call_arg, callFrame>>

\* The closure of the class-def map of DexFile::parse (raw_dex.rs:315-366)
\* on one raw class def.
CallClassDefItem ==
  /\ call_pc = "call"
  /\ call_fn = "ClassDefItem"
  /\ call_result' = ClassDefItem_new(call_arg.raw, call_arg.origin_bytes,
                                     TYPE_ID_REF, TYPE_ID_REF, FIELD_ID_REF,
                                     METHOD_ID_REF, overflow_checks)
  /\ call_pc' = "done"
  /\ UNCHANGED <<call_fn, call_arg, callFrame>>

\* parse_float(value) (constant_pool.rs:38-55), in either build of powi.
CallParseFloat ==
  /\ call_pc = "call"
  /\ call_fn = "parse_float"
  /\ \E rounded \in BOOLEAN : call_result' = parse_float(call_arg, rounded)
  /\ call_pc' = "done"
  /\ UNCHANGED <<call_fn, call_arg, callFrame>>

\* parse_double(value) (constant_pool.rs:57-76), in either build of powi.
CallParseDouble ==
  /\ call_pc = "call"
  /\ call_fn = "parse_double"
  /\ \E rounded \in BOOLEAN : call_result' = parse_double(call_arg, rounded)
  /\ call_pc' = "done"
  /\ UNCHANGED <<call_fn, call_arg, callFrame>>

\* CodeAttribute::parse(bytes) (code.rs:47-75) on the payload of a Code
\* attribute.
CallCodeAttribute ==
  /\ call_pc = "call"
  /\ call_fn = "CodeAttribute"
  /\ call_result' = Parse("CodeAttribute", call_arg.bytes,
                          [pool |-> CONSTANT_POOL_REF])
  /\ call_pc' = "done"
  /\ UNCHANGED <<call_fn, call_arg, callFrame>>

\* `attr.to_string()` on the CodeAttribute the call returned
\* (code.rs:93-106)
CallCodeDisplay ==
  /\ call_pc = "done"
  /\ call_fn = "CodeAttribute"
  /\ call_result.st = "Ok"
  /\ call_result' = [st |-> CodeAttribute_fmt_codes(call_result.val.code).st,
                     rest |-> call_result.rest,
                     val |-> call_result.val,
                     out |-> CodeAttribute_fmt_codes(call_result.val.code).out]
  /\ call_pc' = "shown"
  /\ UNCHANGED <<call_fn, call_arg, callFrame>>

NextCall ==
  \/ CallUleb128
  \/ CallClassDataItem
  \/ CallStackMapTable
  \/ CallClassDefItem
  \/ CallParseFloat
  \/ CallParseDouble
  \/ CallCodeAttribute
  \/ CallStringIdItems
  \/ CallAccessFlags
  \/ CallCodeDisplay

SpecCall == InitCall /\ [][NextCall]_vars

(* C11: the varint reader given the canonical encoding of a u32 v followed *)
(* by any bytes returns v and the number of bytes of the encoding, and     *)
(* leaves exactly the bytes after the encoding.                            *)
C11_VarintRoundTrip ==
  \A v \in LebValues, t \in LebTails :
    (/\ call_pc = "done"
     /\ call_fn = "parse_uleb128_nom"
     /\ call_arg = encode_uleb128(v) \o t)
      => /\ call_result = Ok(t, v)
         /\ parse_uleb128(call_arg, overflow_checks) =
              [st |-> "Ok", value |-> v, i |-> Len(encode_uleb128(v))]

\* The largest u32, encoded on 5 bytes, read back in front of two more bytes.
C11_Witness ==
  /\ call_pc = "done"
  /\ call_fn = "parse_uleb128_nom"
  /\ call_arg = <<255, 255, 255, 255, 15, 255, 1>>
  /\ call_result = Ok(<<255, 1>>, U32(65535, 65535))

(* C12: a varint with the continuation bit on its first 5 bytes is         *)
(* refused with a decoding error.                                          *)
C12_LongVarintIsError ==
  (/\ call_pc = "done"
   /\ call_fn = "parse_uleb128_nom"
   /\ Len(call_arg) >= 5
   /\ \A k \in 1..5 : call_arg[k] >= 128)
    => call_result.st \in {"Eof", "Tag"}

\* The index reached after the first i differences of a list.
RECURSIVE PrefixSum(_, _)
PrefixSum(diffs, i) == IF i = 0 THEN 0 ELSE diffs[i] + PrefixSum(diffs, i - 1)

\* The index differences of a list of methods.
DiffsOf(ms) == [i \in 1..Len(ms) |-> ms[i][1]]

\* Every index of case p lies in the tables and every code offset in the buffer.
InRange(p) ==
  /\ \A l \in {p.sf, p.inf, DiffsOf(p.dm), DiffsOf(p.vm)} :
       PrefixSum(l, Len(l)) < IdTableLen
  /\ \A ms \in {p.dm, p.vm} : \A i \in 1..Len(ms) : ms[i][2] # "X"

\* The fields (or methods) decoded are those of the differences diffs:
\* entry i is the item of the table at the sum of the differences up to i.
Accumulated(list, diffs, table, id) ==
  /\ Len(list) = Len(diffs)
  /\ \A i \in 1..Len(diffs) :
       /\ list[i][id] = table[PrefixSum(diffs, i) + 1]
       /\ list[i][id].name_idx = U32(0, PrefixSum(diffs, i))

(* C13: in class data the index of each encoded field or method is the     *)
(* sum of the differences of its list up to it, the sum starting again at  *)
(* 0 for each of the four lists, and each list holds as many entries as    *)
(* the header declares.                                                    *)
C13_IndexDiffsAccumulate ==
  (/\ call_pc = "done"
   /\ call_fn = "ClassDataItem"
   /\ InRange(call_arg.diffs))
    => /\ call_result.st = "Ok"
       /\ Accumulated(call_result.val.static_fields, call_arg.diffs.sf,
                      FIELD_ID_REF, "field")
       /\ Accumulated(call_result.val.instance_fields, call_arg.diffs.inf,
                      FIELD_ID_REF, "field")
       /\ Accumulated(call_result.val.direct_methods,
                      DiffsOf(call_arg.diffs.dm), METHOD_ID_REF, "method")
       /\ Accumulated(call_result.val.virtual_methods,
                      DiffsOf(call_arg.diffs.vm), METHOD_ID_REF, "method")

\* Static fields of differences 5, 0, 3 are the fields 5, 5, 8, and the
\* instance fields of differences 3, 5 after them the fields 3 and 8.
C13_Witness ==
  /\ call_pc = "done"
  /\ call_fn = "ClassDataItem"
  /\ call_arg.diffs.sf = <<5, 0, 3>>
  /\ call_arg.diffs.inf = <<3, 5>>
  /\ call_arg.diffs.dm = <<<<7, "A">>, <<1, "B">>>>
  /\ call_result.st = "Ok"
  /\ [i \in 1..3 |-> call_result.val.static_fields[i].field.name_idx.lo]
       = <<5, 5, 8>>
  /\ [i \in 1..2 |-> call_result.val.instance_fields[i].field.name_idx.lo]
       = <<3, 8>>
  /\ [i \in 1..2 |-> call_result.val.direct_methods[i].method.name_idx.lo]
       = <<7, 8>>

\* The two code items of the buffer as decoded.
CodeItemOf(c) ==
  IF c = "A"
    THEN [registers_size |-> 1, ins_size |-> 0, outs_size |-> 0,
          tries_size |-> 0, debug_info_off |-> U32(0, 0),
          insns_size |-> U32(0, 1), insns |-> <<14>>]
  ELSE [registers_size |-> 2, ins_size |-> 1, outs_size |-> 0,
        tries_size |-> 1, debug_info_off |-> U32(0, 0),
        insns_size |-> U32(0, 1), insns |-> <<18>>]

\* The methods decoded carry the code offsets of ms, and the code item at
\* each offset other than 0.
CodeItemsOf(list, ms, p) ==
  \A i \in 1..Len(ms) :
    /\ list[i].code_off = U32(0, CodeOff(p, ms[i][2]))
    /\ list[i].code_item = IF ms[i][2] = "none" THEN <<>>
                           ELSE <<CodeItemOf(ms[i][2])>>

(* C14: the code item of an encoded method is decoded at the absolute      *)
(* offset code_off of the whole buffer, wherever that lies and in whatever *)
(* order the offsets come; a method with code_off = 0 has no code item;    *)
(* the cursor of the class data is not moved by it: after the last method  *)
(* it stands at the end of the class data.                                 *)
C14_CodeItemsAtAbsoluteOffsets ==
  (/\ call_pc = "done"
   /\ call_fn = "ClassDataItem"
   /\ InRange(call_arg.diffs))
    => /\ call_result.st = "Ok"
       /\ call_result.rest = CodeBytes("B")
       /\ Len(call_result.val.direct_methods) = Len(call_arg.diffs.dm)
       /\ Len(call_result.val.virtual_methods) = Len(call_arg.diffs.vm)
       /\ CodeItemsOf(call_result.val.direct_methods, call_arg.diffs.dm,
                      call_arg.diffs)
       /\ CodeItemsOf(call_result.val.virtual_methods, call_arg.diffs.vm,
                      call_arg.diffs)

\* Code B, after the class data, read before code A, in front of it; then
\* code A twice and a method without code.
C14_Witness ==
  /\ call_pc = "done"
  /\ call_fn = "ClassDataItem"
  /\ call_arg.diffs.dm = <<<<1, "B">>, <<0, "A">>>>
  /\ call_arg.diffs.vm = <<<<0, "A">>, <<2, "A">>, <<1, "none">>>>
  /\ call_result.st = "Ok"
  /\ call_result.rest = CodeBytes("B")
  /\ call_result.val.direct_methods[1].code_item = <<CodeItemOf("B")>>
  /\ call_result.val.direct_methods[2].code_item = <<CodeItemOf("A")>>
  /\ call_result.val.virtual_methods[2].code_item = <<CodeItemOf("A")>>
  /\ call_result.val.virtual_methods[3].code_item = <<>>
  /\ call_result.val.virtual_methods[3].code_off = U32(0, 0)

\* The frame the frame-type byte of case c selects, with what it carries.
FrameSelected(c) ==
  CASE c.t \in 0..63 -> Frame("SameFrame", c.t, 0, <<>>, <<>>)
    [] c.t \in 64..127 ->
         Frame("SameLocals1StackItemFrame", c.t, 0, <<>>, <<c.vs[1]>>)
    [] c.t \in 128..246 -> Frame("Invalid", 0, 0, <<>>, <<>>)
    [] c.t = 247 ->
         Frame("SameLocals1StackItemFrameExtended", c.t, 258, <<>>, <<c.vs[1]>>)
    [] c.t \in 248..250 -> Frame("ChopFrame", c.t, 258, <<>>, <<>>)
    [] c.t = 251 -> Frame("SameFrameExtended", c.t, 258, <<>>, <<>>)
    [] c.t \in 252..254 ->
         Frame("AppendFrame", c.t, 258, Take(c.vs, c.t - 251), <<>>)
    [] c.t = 255 ->
         Frame("FullFrame", c.t, 258, Take(c.vs, c.nl), Drop(c.vs, 3 - c.ns))

(* C15: the frame-type byte t selects the frame: SameFrame for 0-63,       *)
(* SameLocals1StackItemFrame for 64-127, Invalid for 128-246,              *)
(* SameLocals1StackItemFrameExtended for 247, ChopFrame for 248-250,       *)
(* SameFrameExtended for 251, AppendFrame for 252-254 with t - 251         *)
(* verification types, FullFrame for 255 with the declared numbers of      *)
(* locals and stack items; each frame consumes its own bytes and no more,  *)
(* and the table holds the declared number of frames.                      *)
C15_FrameSelectedByType ==
  (/\ call_pc = "done"
   /\ call_fn = "StackMapTable")
    => /\ call_result.st = "Ok"
       /\ call_result.rest = <<9, 9>>
       /\ call_result.val.number_of_entries = call_arg.n
       /\ Len(call_result.val.entries) = call_arg.n
       /\ call_result.val.entries[1] = FrameSelected(call_arg.frame)
       /\ call_arg.frame.t \in 252..254 =>
            Len(call_result.val.entries[1].locals) = call_arg.frame.t - 251
       /\ call_arg.n >= 2 =>
            call_result.val.entries[2] =
              Frame("SameFrameExtended", 251, 7, <<>>, <<>>)
       /\ call_arg.n >= 3 =>
            call_result.val.entries[3] =
              Frame("SameLocals1StackItemFrame", 64, 0, <<>>,
                    <<[vt |-> "Object", arg |-> 5]>>)

\* A table of 3 frames whose first is an AppendFrame of type 253: 2 locals.
C15_Witness ==
  /\ call_pc = "done"
  /\ call_fn = "StackMapTable"
  /\ call_arg.bytes = <<0, 3, 253, 1, 2, 1, 7, 0, 5, 251, 0, 7, 64, 7, 0, 5, 9, 9>>
  /\ call_result.st = "Ok"
  /\ Len(call_result.val.entries) = 3
  /\ call_result.val.entries[1].frame = "AppendFrame"
  /\ call_result.val.entries[1].locals =
       <<[vt |-> "Integer", arg |-> 0], [vt |-> "Object", arg |-> 5]>>
  /\ call_result.val.entries[3].frame = "SameLocals1StackItemFrame"
  /\ call_result.rest = <<9, 9>>

(* C16: a decode that resolves an index beyond its table returns an error  *)
(* value: here class data whose accumulated field or method index lies     *)
(* beyond FIELD_ID_REF or METHOD_ID_REF is neither decoded nor an abort.   *)
C16_IndexOutOfRangeIsError ==
  (/\ call_pc = "done"
   /\ call_fn = "ClassDataItem"
   /\ \E l \in {call_arg.diffs.sf, call_arg.diffs.inf,
                DiffsOf(call_arg.diffs.dm), DiffsOf(call_arg.diffs.vm)} :
        PrefixSum(l, Len(l)) >= IdTableLen)
    => call_result.st \notin {"Ok", "Panic"}

(* C17: a class def whose superclass index is NO_INDEX has no superclass   *)
(* and one whose source-file index is NO_INDEX no source file, no table    *)
(* being looked up with that value; an interfaces offset of 0 gives no     *)
(* type list and a class-data offset of 0 no class data; any other value   *)
(* gives the reference resolved from that index or offset.                 *)
C17_AbsenceMarkers ==
  (/\ call_pc = "done"
   /\ call_fn = "ClassDefItem"
   /\ call_arg.raw[3] \in {NO_INDEX, U32(0, 0), U32(0, 1)}
   /\ call_arg.raw[4] # U32(0, 200))
    => /\ call_result # <<>>
       /\ call_result[1].superclass =
            IF call_arg.raw[3] = U32(65535, 65535) THEN <<>>
            ELSE <<TYPE_ID_REF[call_arg.raw[3].lo + 1]>>
       /\ call_result[1].source_file_idx =
            IF call_arg.raw[5] = U32(65535, 65535) THEN <<>>
            ELSE <<call_arg.raw[5]>>
       /\ call_result[1].interfaces =
            IF call_arg.raw[4] = U32(0, 0) THEN <<>>
            ELSE <<[size |-> U32(0, 2),
                    list |-> <<TYPE_ID_REF[2], TYPE_ID_REF[1]>>]>>
       /\ IF call_arg.raw[7] = U32(0, 0)
            THEN call_result[1].class_data_item = <<>>
          ELSE /\ Len(call_result[1].class_data_item) = 1
               /\ [i \in 1..3 |-> call_result[1].class_data_item[1]
                                    .static_fields[i].field.name_idx.lo]
                    = <<5, 5, 8>>
               /\ Len(call_result[1].class_data_item[1].direct_methods) = 2
               /\ call_result[1].class_data_item[1].direct_methods[1].code_item
                    = <<CodeItemOf("B")>>

\* A class def without superclass, source file, interfaces and class data.
C17_Witness ==
  /\ call_pc = "done"
  /\ call_fn = "ClassDefItem"
  /\ call_arg.raw = <<U32(0, 1), U32(0, 1), U32(65535, 65535), U32(0, 0),
                      U32(65535, 65535), U32(0, 0), U32(0, 0), U32(0, 0)>>
  /\ call_result # <<>>
  /\ call_result[1].superclass = <<>>
  /\ call_result[1].source_file_idx = <<>>
  /\ call_result[1].interfaces = <<>>
  /\ call_result[1].class_data_item = <<>>
  /\ call_result[1].class = TYPE_ID_REF[2]

(* C18: the 32-bit and the 64-bit pattern decode to +Infinity, -Infinity   *)
(* and NaN for the special patterns, and any other pattern to              *)
(* sign * mantissa * 2^(e - 150) (64-bit: 2^(e - 1075)), the mantissa      *)
(* being the fraction doubled when the exponent field e is 0 and the       *)
(* fraction with the leading bit otherwise.                                *)
C18_Ieee754Reconstruction ==
  /\ (call_pc = "done" /\ call_fn = "parse_float") =>
       call_result =
         IF call_arg = U32(32640, 0) THEN FloatValue("Infinity", 1, 0, 0)
         ELSE IF call_arg = U32(65408, 0) THEN FloatValue("Infinity", -1, 0, 0)
         ELSE IF call_arg = U32(32704, 0) THEN FloatValue("NaN", 1, 0, 0)
         ELSE LET e == (call_arg.hi \div 128) % 256
                  fraction == (call_arg.hi % 128) * 65536 + call_arg.lo
                  m == IF e = 0 THEN 2 * fraction ELSE 8388608 + fraction
              IN  FloatValue("Finite", IF call_arg.hi < 32768 THEN 1 ELSE -1,
                             m, IF m = 0 THEN 0 ELSE e - 150)
  /\ (call_pc = "done" /\ call_fn = "parse_double") =>
       LET top == call_arg.hi.hi
           low == <<call_arg.hi.lo, call_arg.lo.hi, call_arg.lo.lo>>
           e == (top \div 16) % 2048
           m == IF e # 0 THEN <<16 + (top % 16)>> \o low
                ELSE <<2 * (top % 16) + (low[1] \div 32768),
                       ((2 * low[1]) % 65536) + (low[2] \div 32768),
                       ((2 * low[2]) % 65536) + (low[3] \div 32768),
                       (2 * low[3]) % 65536>>
       IN  call_result =
             IF e = 2047
               THEN IF top % 16 = 0 /\ low = <<0, 0, 0>>
                      THEN FloatValue("Infinity", IF top < 32768 THEN 1 ELSE -1,
                                      <<0, 0, 0, 0>>, 0)
                    ELSE FloatValue("NaN", 1, <<0, 0, 0, 0>>, 0)
             ELSE FloatValue("Finite", IF top < 32768 THEN 1 ELSE -1, m,
                             IF m = <<0, 0, 0, 0>> THEN 0 ELSE e - 1075)

C20_EmptyBufferDecodes ==
  (/\ dec_pc = "done"
   /\ dec_format = "class"
   /\ dec_input = <<>>)
    => dec_result.st = "Ok"

(* C21: the pool decoder fills exactly pool_count - 1 slots, a Long or a   *)
(* Double counting as two: in the loop the slots filled and the slots      *)
(* still to fill add up to the declared count less one, so no entry is     *)
(* read beyond them, and a returned pool holds exactly that many; also     *)
(* when a Long or a Double is read with one slot left.                     *)
C21_PoolFillsDeclaredSlots ==
  (cp_pc \in {"loop", "Ok"} /\ declared_count >= 1)
    => /\ Len(constant_pool) + pool_count = declared_count - 1
       /\ cp_pc = "Ok" => Len(constant_pool) = declared_count - 1

\* The operand bytes of the opcodes of CodeByteSet in the operand table.
OperandBytes(code) == IF code = 16 THEN 1 ELSE IF code = 17 THEN 2 ELSE 0

\* The code bytes can be cut into instructions of 1 + OperandBytes bytes.
RECURSIVE Fits(_)
Fits(code_bytes) ==
  \/ code_bytes = <<>>
  \/ /\ 1 + OperandBytes(code_bytes[1]) <= Len(code_bytes)
     /\ Fits(Drop(code_bytes, 1 + OperandBytes(code_bytes[1])))

\* The bytes of the instructions, in order.
RECURSIVE InstructionBytes(_)
InstructionBytes(infos) ==
  IF infos = <<>> THEN <<>>
  ELSE <<Head(infos).code>> \o Head(infos).index_byte1
         \o Head(infos).index_byte2 \o InstructionBytes(Tail(infos))

(* C22: the code_length bytes of a Code attribute are decoded in order     *)
(* into instructions that partition them, each of 1 opcode byte and the    *)
(* operand bytes the table gives for the opcode, none for an opcode the    *)
(* table does not hold; the decode fails only when the bytes end inside    *)
(* the operands of an opcode of the table, never for an unknown opcode.    *)
C22_InstructionsPartitionCode ==
  (call_pc = "done" /\ call_fn = "CodeAttribute")
    => /\ call_result.st = (IF Fits(call_arg.code) THEN "Ok" ELSE "Tag")
       /\ (\A k \in DOMAIN call_arg.code : call_arg.code[k] \in {0, 167, 177})
            => call_result.st = "Ok"
       /\ call_result.st = "Ok" =>
            /\ call_result.val.code_length = U32(0, Len(call_arg.code))
            /\ InstructionBytes(call_result.val.code) = call_arg.code
            /\ \A i \in DOMAIN call_result.val.code :
                 Len(call_result.val.code[i].index_byte1)
                   + Len(call_result.val.code[i].index_byte2)
                   = OperandBytes(call_result.val.code[i].code)

\* goto (unknown) read as an instruction of 1 byte, then bipush with its
\* operand, then return.
C22_Witness ==
  /\ call_pc = "done"
  /\ call_fn = "CodeAttribute"
  /\ call_arg.code = <<167, 16, 17, 177>>
  /\ call_result.st = "Ok"
  /\ call_result.val.code =
       <<[code |-> 167, index_byte1 |-> <<>>, index_byte2 |-> <<>>],
         [code |-> 16, index_byte1 |-> <<17>>, index_byte2 |-> <<>>],
         [code |-> 177, index_byte1 |-> <<>>, index_byte2 |-> <<>>]>>

----------------------------------------------------------------------------
(* The LineNumberTable attribute (SpecAttr).                               *)

\* The payload of the attribute record in attr_input.
LinePayload == Take(Drop(attr_input, 6), DeclaredLength(attr_input))

\* Pair k (from 0) of a line-number payload: bytes 2+4k .. 2+4k+3.
LinePair(payload, k) ==
  [start_pc |-> payload[3 + 4 * k] * 256 + payload[4 + 4 * k],
   line_number |-> payload[5 + 4 * k] * 256 + payload[6 + 4 * k]]

\* The attribute names LineNumberTable and its payload is a count N and
\* N pairs.
LineNumberTableGiven ==
  /\ attr_pc = "done"
  /\ PayloadWhole
  /\ ~NameUnrecognized
  /\ CONSTANT_POOL_REF[NameIndexOf(attr_input)].info.a
       = LINE_NUMBER_TABLE_ATTRIBUTE_NAME
  /\ Len(LinePayload) >= 2
  /\ Len(LinePayload) = 2 + 4 * be_u16(LinePayload).val

(* C23: a LineNumberTable attribute whose payload is a count N and N       *)
(* pairs decodes to the list of those N (start_pc, line_number) pairs,     *)
(* pair k read from payload bytes 2+4k .. 2+4k+3.                          *)
C23_LineNumberTableIsList ==
  LineNumberTableGiven =>
    /\ attr_result.st = "Ok"
    /\ attr_result.val.attribute_info.variant = "LineNumberTable"
    /\ LET n == be_u16(LinePayload).val
           got == attr_result.val.attribute_info.payload
       IN  \/ n = 0
           \/ got \in { LinePair(LinePayload, k) : k \in 0..(n - 1) }
           \/ /\ DOMAIN got = 1..n
              /\ \A k \in 1..n : got[k] = LinePair(LinePayload, k - 1)

----------------------------------------------------------------------------
(* The order of the installs and the lookups of one decode                 *)
(* (SpecConcurrent, a thread no other write of the statics has raced       *)
(* with).                                                                  *)

\* Thread t is about to run the code after its install(s), and its reads
\* of the statics are ordered after them.
Resolving(t, pc) == th[t].pc = pc /\ ~th[t].raced

(* C24: whenever a decode is about to resolve proto, field-id and          *)
(* method-id records, the string and type tables of its file are complete  *)
(* and are what the statics hold; whenever it is about to decode class     *)
(* definitions and class data, the field-id and method-id tables of its    *)
(* file are installed too; whenever a class-file decode is about to        *)
(* decode fields, methods and attributes, the pool of its file is what     *)
(* CONSTANT_POOL_REF holds.                                                *)
C24_InstalledBeforeUsed ==
  \A t \in Threads :
    /\ (th[t].format = "dex" /\ (Resolving(t, "middle") \/ Resolving(t, "back")))
         => LET f == th[t].held.val IN
            /\ STRING_DATA_REF = f.string_ids
            /\ TYPE_ID_REF = f.type_ids
            /\ Len(STRING_DATA_REF) = AsUsize(f.dex_header.string_ids_size)
            /\ Len(TYPE_ID_REF) = AsUsize(f.dex_header.type_ids_size)
    /\ (th[t].format = "dex" /\ Resolving(t, "back"))
         => /\ FIELD_ID_REF = th[t].mid.val.field_ids
            /\ METHOD_ID_REF = th[t].mid.val.method_ids
    /\ (th[t].format = "class" /\ Resolving(t, "back"))
         => CONSTANT_POOL_REF = th[t].held.val.constant_pool

\* A dex decode about to decode its class data and a class-file decode
\* about to decode its fields, both with tables that are not empty.
C24_Witness ==
  /\ th[1].format = "dex" /\ Resolving(1, "back")
  /\ th[2].format = "class" /\ Resolving(2, "back")
  /\ STRING_DATA_REF # <<>> /\ TYPE_ID_REF # <<>>
  /\ FIELD_ID_REF # <<>> /\ METHOD_ID_REF # <<>>
  /\ CONSTANT_POOL_REF # <<>>

(* C25: every string id is resolved by following its offset to a varint,   *)
(* the length of the text in UTF-16 code units, and the text after it:     *)
(* the stored text is the text of the item, of exactly that many code      *)
(* units, characters of 2 and 3 bytes included, in whatever order the      *)
(* offsets come.                                                           *)
C25_StringDataByUtf16Length ==
  (call_pc = "done" /\ call_fn = "StringIdItems") =>
    /\ call_result.st = "Ok"
    /\ Len(call_result.val) = Len(call_arg.string_ids)
    /\ \A k \in 1..Len(call_arg.string_ids) :
         LET item == call_result.val[k]
             text == call_arg.texts[k]
             units == parse_utf16_str(item.string_data \o <<0>>)
         IN  /\ item.string_data_off = call_arg.string_ids[k]
             /\ item.string_utf16_size = U32(0, Len(text))
             /\ item.string_data = Concat(text)
             /\ units.st = "Ok"
             /\ Len(units.val) = Len(text)

----------------------------------------------------------------------------
(* The flags of an access mask (SpecCall).                                 *)

\* Bit `mask` is set in the mask the call was given.
HasBit(mask) == (call_arg.flag \div mask) % 2 = 1

\* The table of a kind of item.
AccTable(kind) ==
  CASE kind = "class" -> CLASS_ACC
    [] kind = "field" -> FIELD_ACC
    [] kind = "method" -> METHOD_ACC

\* Where a flag stands in a table.
AccPosition(table, name) == CHOOSE i \in 1..Len(table) : table[i][2] = name

(* C26: the flags of a mask are those of the table of its kind whose bit   *)
(* is set, in the order of the table and each once; a bit with no entry   *)
(* in that table adds nothing; 0x0020 is Super on a class and              *)
(* Synchronized on a method, 0x0040 Volatile on a field and Bridge on a    *)
(* method, 0x0080 Transient on a field and Varargs on a method; the raw    *)
(* mask is kept.                                                           *)
C26_AccessFlagsByKind ==
  (call_pc = "done" /\ call_fn = "AccessFlags") =>
    LET table == AccTable(call_arg.kind)
        got == call_result.flags
        Got == {got[i] : i \in 1..Len(got)}
    IN  /\ call_result.raw = call_arg.flag
        /\ Got = {table[i][2] : i \in {j \in 1..Len(table) : HasBit(table[j][1])}}
        /\ Cardinality(Got) = Len(got)
        /\ \A i, j \in 1..Len(got) :
             i < j => AccPosition(table, got[i]) < AccPosition(table, got[j])
        /\ ("Super" \in Got) = (call_arg.kind = "class" /\ HasBit(32))
        /\ ("Synchronized" \in Got) = (call_arg.kind = "method" /\ HasBit(32))
        /\ ("Volatile" \in Got) = (call_arg.kind = "field" /\ HasBit(64))
        /\ ("Bridge" \in Got) = (call_arg.kind = "method" /\ HasBit(64))
        /\ ("Transient" \in Got) = (call_arg.kind = "field" /\ HasBit(128))
        /\ ("Varargs" \in Got) = (call_arg.kind = "method" /\ HasBit(128))
        /\ (call_arg.kind = "class" /\ call_arg.flag \in {2, 4, 8, 64, 128, 32768})
             => got = <<>>

\* A field with Public, Volatile and Transient set.
C26_Witness ==
  /\ call_pc = "done"
  /\ call_fn = "AccessFlags"
  /\ call_arg = [kind |-> "field", flag |-> 193]
  /\ call_result = [flags |-> <<"Public", "Volatile", "Transient">>, raw |-> 193]

----------------------------------------------------------------------------
(* The statics across a failed decode (SpecSession).                       *)

\* The step is a decode, and it returned an error or panicked.
FailedDecode ==
  /\ Len(log') = Len(log) + 1
  /\ log'[Len(log')].res.st # "Ok"

(* C27: a decode that fails leaves the resolution tables as they were      *)
(* before it: every static holds after the step what it held before.       *)
C27_FailedDecodeKeepsTables ==
  [][FailedDecode => refVars' = refVars]_vars

----------------------------------------------------------------------------
(* The counter of the pool loop (SpecPool).                                *)

(* C28: the counter of the pool loop starts at pool_count - 1 slots or at  *)
(* zero, strictly decreases with every entry decoded, and never steps      *)
(* below zero, a Long or Double with one slot left included: no step       *)
(* panics on the counter or wraps it, so the loop ends after at most       *)
(* pool_count iterations.                                                  *)
C28_PoolCounterDescends ==
  [][/\ cp_pc = "entry" => (cp_pc' = "loop" /\ pool_count' <= declared_count)
     /\ (cp_pc = "loop" /\ pool_count > 0
           /\ ConstantPoolInfo_parse(m_bytes).st = "Ok")
          => (cp_pc' = "loop" /\ pool_count' < pool_count)]_vars

----------------------------------------------------------------------------
(* The rendering of decoded instructions (SpecCall).                       *)

(* C29: every instruction stream the decoder accepted can be rendered:     *)
(* the name lookup is defined for every opcode decoded, an opcode the      *)
(* operand table lacks included, one text per instruction; and the name    *)
(* table and the operand-count table have the same opcodes.                *)
C29_DecodedInstructionsRender ==
  /\ {c \in 0..255 : CODE_NAME_MAP_get(c) # <<>>}
       = {c \in 0..255 : CODE_OP_CNT_MAP_get(c) # <<>>}
  /\ (call_pc = "shown" /\ call_fn = "CodeAttribute")
       => /\ call_result.st = "Ok"
          /\ Len(call_result.out) = Len(call_result.val.code)

----------------------------------------------------------------------------
(* class_parser_tui: the tabs and the method list of the Detail tab        *)
(* (app.rs, stateful_select_list.rs).  SpecTui: the keys and the draws of  *)
(* one App, from App::new on.                                              *)

\* Most methods of the class file shown.
MaxMethods == 3

\* Largest scroll position of the ConstantPool tab reached.
MaxScroll == 2

\* titles.len() (app.rs:50-59)
TabCount == 8

\* usize::MAX, the value of `0usize - 1` when it wraps.  It is only stored
\* and compared: the largest integer TLC has stands for 2^64 - 1.
USIZE_MAX == 2147483647

(* `self.items.len() - 1` on usize (stateful_select_list.rs:34, 49):       *)
(* <<n>>, or <<>> for the panic of a checked subtraction.                   *)
LastIndex(len, oc) ==
  IF len >= 1 THEN <<len - 1>> ELSE IF oc THEN <<>> ELSE <<USIZE_MAX>>

(* StatefulList::next (stateful_select_list.rs:31-43): the new selection, *)
(* <<>> for a panic.                                                       *)
StatefulList_next(sel, len, oc) ==
  IF sel = <<>> THEN <<<<0>>>>
  ELSE IF LastIndex(len, oc) = <<>> THEN <<>>
  ELSE IF sel[1] >= LastIndex(len, oc)[1] THEN <<<<0>>>>
  ELSE <<<<sel[1] + 1>>>>

(* StatefulList::previous (stateful_select_list.rs:45-57) *)
StatefulList_previous(sel, len, oc) ==
  IF sel = <<>> THEN <<<<0>>>>
  ELSE IF sel[1] = 0
    THEN IF LastIndex(len, oc) = <<>> THEN <<>> ELSE <<LastIndex(len, oc)>>
  ELSE <<<<sel[1] - 1>>>>

\* `self.items.state.selected().unwrap_or(0)` (stateful_select_list.rs:125)
selected_idx(sel) == IF sel = <<>> THEN 0 ELSE sel[1]

\* The list after a call of next or previous that returned r.
ListMoved(r) ==
  IF r = <<>> THEN tui_pc' = "Panic" /\ UNCHANGED selected
  ELSE selected' = r[1] /\ UNCHANGED tui_pc

\* App::new (app.rs:33-65), StatefulList::with_items
\* (stateful_select_list.rs:21-29): tab 0, item 0 selected, not toggled.
InitTui ==
  /\ overflow_checks \in BOOLEAN
  /\ RefsEmpty
  /\ Idle("tui")
  /\ tui_pc = "run"
  /\ app_index = 0
  /\ list_len \in 0..MaxMethods
  /\ selected = <<0>>
  /\ toggle = FALSE
  /\ scroll_y = 0
  /\ indexed = <<>>

\* handle_key(Right): App::next (app.rs:67-69)
KeyRight ==
  /\ tui_pc = "run"
  /\ app_index' = (app_index + 1) % TabCount
  /\ UNCHANGED <<tui_pc, list_len, selected, toggle, scroll_y, indexed, tuiFrame>>

\* handle_key(Left): App::previous (app.rs:71-77)
KeyLeft ==
  /\ tui_pc = "run"
  /\ app_index' = IF app_index > 0 THEN app_index - 1 ELSE TabCount - 1
  /\ UNCHANGED <<tui_pc, list_len, selected, toggle, scroll_y, indexed, tuiFrame>>

\* handle_key(Up) (app.rs:149-157)
KeyUp ==
  /\ tui_pc = "run"
  \* a selection that has left the list goes on counting: not followed
  \* further than one below usize::MAX
  /\ app_index = 7 => selected[1] \in 0..(MaxMethods + 1) \cup {USIZE_MAX}
  /\ IF app_index = 6
       THEN /\ scroll_y' = IF scroll_y = 0 THEN 0 ELSE scroll_y - 1
            /\ UNCHANGED <<tui_pc, selected>>
     ELSE IF app_index = 7
       THEN /\ ListMoved(StatefulList_previous(selected, list_len, overflow_checks))
            /\ UNCHANGED scroll_y
     ELSE UNCHANGED <<tui_pc, selected, scroll_y>>
  /\ UNCHANGED <<app_index, list_len, toggle, indexed, tuiFrame>>

\* handle_key(Down) (app.rs:158-166)
KeyDown ==
  /\ tui_pc = "run"
  /\ app_index = 6 => scroll_y < MaxScroll
  \* a selection that has left the list goes on counting: not followed
  \* further than one past the longest list
  /\ app_index = 7 => selected[1] \in 0..MaxMethods \cup {USIZE_MAX}
  /\ IF app_index = 6
       THEN /\ scroll_y' = IF scroll_y = U16 - 1 THEN scroll_y ELSE scroll_y + 1
            /\ UNCHANGED <<tui_pc, selected>>
     ELSE IF app_index = 7
       THEN /\ ListMoved(StatefulList_next(selected, list_len, overflow_checks))
            /\ UNCHANGED scroll_y
     ELSE UNCHANGED <<tui_pc, selected, scroll_y>>
  /\ UNCHANGED <<app_index, list_len, toggle, indexed, tuiFrame>>

\* handle_key(Enter) (app.rs:167-171): StatefulList::toggle
KeyEnter ==
  /\ tui_pc = "run"
  /\ toggle' = IF app_index = 7 THEN ~toggle ELSE toggle
  /\ UNCHANGED <<tui_pc, app_index, list_len, selected, scroll_y, indexed, tuiFrame>>

\* App::draw (app.rs:79-129).  On the Detail tab SelectableList::draw
\* indexes the items with the selection (stateful_select_list.rs:125-126):
\* a panic when it is past the end.
Draw ==
  /\ tui_pc = "run"
  /\ IF app_index = 7
       THEN /\ indexed' = <<selected_idx(selected)>>
            /\ tui_pc' = IF selected_idx(selected) < list_len THEN "run"
                         ELSE "Panic"
     ELSE UNCHANGED <<tui_pc, indexed>>
  /\ UNCHANGED <<app_index, list_len, selected, toggle, scroll_y, tuiFrame>>

NextTui ==
  \/ KeyRight
  \/ KeyLeft
  \/ KeyUp
  \/ KeyDown
  \/ KeyEnter
  \/ Draw

SpecTui == InitTui /\ [][NextTui]_vars

\* A key moved the selection of the method list.
SelectionMoved == selected' # selected

(* C30: on the Detail tab, after any keys and draws, no key and no draw    *)
(* panics, the index used to index the items is below their number, Down   *)
(* on the last item selects the first and Up on the first selects the      *)
(* last, and Enter changes the toggle flag only; for every list size, the  *)
(* empty list included.                                                    *)
C30_DetailSelectionInBounds ==
  /\ [](tui_pc = "run" /\ (indexed # <<>> => indexed[1] < list_len))
  /\ [][/\ SelectionMoved =>
             /\ selected'[1] < list_len
             /\ \/ selected'[1] = selected[1] + 1
                \/ selected'[1] = selected[1] - 1
                \/ selected[1] = list_len - 1 /\ selected'[1] = 0
                \/ selected[1] = 0 /\ selected'[1] = list_len - 1
        /\ toggle' # toggle =>
             UNCHANGED <<app_index, list_len, selected, scroll_y, indexed>>]_vars

====
